---- MODULE Spec2Model ----
(***************************************************************************)
(* Verification model of etcd-client-py.                                   *)
(*                                                                         *)
(* LockSpec: EtcdLockManager (src/src/lock_manager.rs) running against an  *)
(* abstract backing store that owns leases and one named lock.  Every      *)
(* await point of handle_aenter / handle_aexit is one step, so handlers of *)
(* different managers, the keepalive tasks, the store and the passage of   *)
(* time interleave.  Time passes in ticks of ttl/TtlTicks seconds.          *)
(***************************************************************************)
EXTENDS Integers, FiniteSets, Sequences, TLC

\* ------------------------------------------------------------------ bounds
\* ticks of model time in one lease TTL.  The keepalive loop sleeps ttl/10
\* (lock_manager.rs:103), so for TtlTicks <= 10 a running keepalive task
\* sends at least one heartbeat in every tick.
TtlTicks == 2

None == "None"

\* two lock managers competing for the same lock name
Mgrs == {"m1", "m2"}

\* etcd_client::Error variants matched in error.rs
ErrorVariants ==
    {"GRpcStatus", "InvalidArgs", "InvalidUri", "IoError", "TransportError",
     "WatchError", "Utf8Error", "LeaseKeepAliveError", "ElectError",
     "InvalidHeaderValue", "EndpointError", "LockError"}

\* a conversion that raises every error of the store as LockError
PyErrOf_Lock(e) == "LockError"

\* error.rs:43-88  From<PyClientError> for PyErr: variant -> exception class
PyErrOf(e) ==
    CASE e = "GRpcStatus"          -> "GRpcStatusError"
      [] e = "InvalidArgs"         -> "InvalidArgsError"
      [] e = "InvalidUri"          -> "InvalidUriError"
      [] e = "IoError"             -> "IoError"
      [] e = "TransportError"      -> "TransportError"
      [] e = "WatchError"          -> "WatchError"
      [] e = "Utf8Error"           -> "Utf8Error"
      [] e = "LeaseKeepAliveError" -> "LeaseKeepAliveError"
      [] e = "ElectError"          -> "ElectError"
      [] e = "InvalidHeaderValue"  -> "InvalidHeaderValueError"
      [] e = "EndpointError"       -> "EndpointError"
      [] e = "LockError"           -> "LockError"

\* errors the store's lock call is driven with
LockCallErrors == {"GRpcStatus", "LockError"}

\* outcomes of client.lease_revoke as the code distinguishes them:
\* Ok, Err(GRpcStatus(NotFound)), Err(GRpcStatus(other code)), Err(other variant)
RevokeOutcomes == {"Ok", "NotFound", "Status", "NonStatus"}

VARIABLES
    \* EtcdLockManager fields
    ttl, timeout_seconds, lock_id, lease_id, lease_keepalive_task,
    \* position of the handler running on each manager
    pc,
    \* what the last finished handler returned, and the store calls it made
    result, calls,
    \* life cycle of the manager as seen by its caller
    phase,
    \* keepalive task: 1 when a heartbeat is due in the current tick
    kaTimer,
    \* backing store
    storeLease, storeOwner, storeWaiting, lockResp

lockVars == <<ttl, timeout_seconds, lock_id, lease_id, lease_keepalive_task,
              pc, result, calls, phase, kaTimer,
              storeLease, storeOwner, storeWaiting, lockResp>>

mgrFields == <<lock_id, lease_id, lease_keepalive_task>>
config    == <<ttl, timeout_seconds>>
storeVars == <<storeLease, storeOwner, storeWaiting, lockResp>>

\* state of the client sessions (client.rs)
VARIABLES
    lock_options,     \* Client.lock_options of each session: None or "Some"
    active_contexts,  \* the bridge's active-context counter
    session,          \* where each session's __aenter__/__aexit__ stands
    is_last,          \* what `await inner_cleanup` gave each wrapper
    period_enters,    \* history: enter_context calls since the count left 0
    period_exits,     \* history: exit_context calls since the count left 0
    period_trues      \* history: of these, the ones that returned true

ctxVars == <<lock_options, active_contexts, session, is_last,
             period_enters, period_exits, period_trues>>

\* state of the runtime bridge (runtime.rs)
VARIABLES
    RUNTIME,       \* the OnceLock: None, or "EtcdRt" once get_or_init ran
    ACTIVE_TASKS,  \* the active-task counter
    task_state,    \* where each bridged task stands
    cleanup,       \* where the running _cleanup_runtime call stands
    elapsed,       \* sleeps of wait_for_tasks since its start
    thread,        \* the management thread
    permit,        \* shutdown_notifier holds a stored notification
    cleanups,      \* history: _cleanup_runtime calls that have returned
    panicked       \* history: a _cleanup_runtime call panicked

rtVars == <<RUNTIME, ACTIVE_TASKS, task_state, cleanup, elapsed, thread, permit,
            cleanups, panicked>>

\* state of one condition signal (condvar.rs)
VARIABLES
    condition,  \* the flag behind PyCondVar.condition
    waiter,     \* where each wait() task stands
    notifier    \* where each notify_waiters / _notify_waiters call stands

cvVars == <<condition, waiter, notifier>>

\* state of one watch session (watch.rs, watch_event_stream.rs)
VARIABLES
    once,          \* PyWatch.once
    handles,       \* PyWatch objects of the session held by the host
    event_stream,  \* PyWatch.event_stream: None or "Some"
    watcher,       \* PyWatch.watcher: None or "Some"
    ready_event,   \* PyWatch.ready_event: None, or its flag "clear"/"set"
    es_lock,       \* holder of the event_stream mutex: None or a poll
    events,        \* PyWatchEventStream.events
    index,         \* PyWatchEventStream.index
    poll,          \* where each __anext__ future stands
    ret,           \* the result each __anext__ future carries
    server_watch,  \* the watch on the backing store
    inflight,      \* responses sent by the store, not yet read
    emitted,       \* events the store has sent so far
    cancel_sent,   \* Watcher::cancel has been accepted
    yielded,       \* history: events returned to the host, in order
    init_ran,      \* history: some __anext__ has entered init()
    watch_called,  \* history: client.watch has been called
    watches_made,  \* history: server-side watches established
    streams_made   \* history: event streams created

watchVars == <<once, handles, event_stream, watcher, ready_event, es_lock, events, index,
               poll, ret, server_watch, inflight, emitted, cancel_sent,
               yielded, init_ran, watch_called, watches_made, streams_made>>

\* state of one Client object with lock options that several sessions
\* enter (client.rs), and of the lock its managers ask the store for
VARIABLES
    lock_manager,   \* PyClient.lock_manager: None or the manager it holds
    entry,          \* where the session of each `async with` stands
    exit_manager,   \* the manager each __aexit__ took from the object
    mgr_lock_id,    \* EtcdLockManager.lock_id of each manager
    mgr_timeout,    \* the lock options carry a timeout
    lock_holder,    \* the manager whose lock the store holds, or None
    lock_queue,     \* managers whose lock request waits on the store
    unlocks         \* history: unlock calls made for each manager's lock

sharedVars == <<lock_manager, entry, exit_manager, mgr_lock_id, mgr_timeout,
                lock_holder, lock_queue, unlocks>>

\* the mutexes of a watch session and of the client handle it shares with a
\* communicator (watch.rs, communicator.rs, condvar.rs)
VARIABLES
    holder,       \* the task that holds each mutex, or None
    at,           \* where each task stands
    stream_set,   \* the session's event_stream is Some
    with_once,    \* PyWatch.once
    with_ready    \* PyWatch.ready_event is Some

mutexVars == <<holder, at, stream_set, with_once, with_ready>>

\* one key of the backing store, a replace() call on a client handle, a put
\* on the same handle and a writer on another handle (communicator.rs)
VARIABLES
    kv,            \* the key's value in the store, or None
    handle,        \* the task that holds the handle's mutex, or None
    replace_at,    \* where the replace future stands
    initial_val,   \* replace's arguments
    new_val,
    response,      \* the value replace's get returned
    replace_ret,   \* what replace resolved with, or None
    put_at         \* where the put on the same handle stands

replaceVars == <<kv, handle, replace_at, initial_val, new_val, response, replace_ret, put_at>>


\* what the actions of one component leave alone: the other components
beyondLock  == <<ctxVars, rtVars, cvVars, watchVars, sharedVars, mutexVars, replaceVars>>
beyondCtx   == <<lockVars, rtVars, cvVars, watchVars, sharedVars, mutexVars, replaceVars>>
beyondRt    == <<lockVars, ctxVars, cvVars, watchVars, sharedVars, mutexVars, replaceVars>>
beyondCv    == <<lockVars, ctxVars, rtVars, watchVars, sharedVars, mutexVars, replaceVars>>
beyondWatch == <<lockVars, ctxVars, rtVars, cvVars, sharedVars, mutexVars, replaceVars>>
beyondShared == <<lockVars, ctxVars, rtVars, cvVars, watchVars, mutexVars, replaceVars>>
beyondMutex == <<lockVars, ctxVars, rtVars, cvVars, watchVars, sharedVars, replaceVars>>
beyondReplace == <<lockVars, ctxVars, rtVars, cvVars, watchVars, sharedVars, mutexVars>>

NoResult == [op |-> "none", exc |-> "none", path |-> "none"]

\* lock_manager.rs:51-61  EtcdLockManager::new, for every ttl/timeout option
LockInit ==
    /\ ttl \in [Mgrs -> {None, "Some"}]
    /\ timeout_seconds \in [Mgrs -> {None, "Some"}]
    /\ lock_id = [m \in Mgrs |-> None]
    /\ lease_id = [m \in Mgrs |-> None]
    /\ lease_keepalive_task = [m \in Mgrs |-> None]
    /\ pc = [m \in Mgrs |-> "idle"]
    /\ result = [m \in Mgrs |-> NoResult]
    /\ calls = [m \in Mgrs |-> {}]
    /\ phase = [m \in Mgrs |-> "Idle"]
    /\ kaTimer = [m \in Mgrs |-> 0]
    /\ storeLease = [m \in Mgrs |-> 0]
    /\ storeOwner = None
    /\ storeWaiting = {}
    /\ lockResp = [m \in Mgrs |-> "none"]

\* ------------------------------------------------------------------ store
LeaseLive(m) == storeLease[m] > 0

\* the store's lock of m is scoped to m's lease iff the request carried one
LeaseBound(m) == ttl[m] # None

\* owner of the named lock once the lease of m is gone (revoked or expired)
OwnerWithoutLease(m) ==
    IF storeOwner = m /\ LeaseBound(m) THEN None ELSE storeOwner

\* store effect of lease_revoke(lease of m) with outcome r: only a revoke the
\* store answers with Ok removes the lease (and the lock scoped to it)
RevokeStoreLease(m, r) ==
    IF r = "Ok" THEN [storeLease EXCEPT ![m] = 0] ELSE storeLease

RevokeStoreOwner(m, r) ==
    IF r = "Ok" THEN OwnerWithoutLease(m) ELSE storeOwner

\* outcomes the store can give for a revoke of m's lease
RevokePossible(m, r) ==
    /\ r \in RevokeOutcomes
    /\ r = "Ok" => LeaseLive(m)
    /\ r = "NotFound" => ~LeaseLive(m)

\* ---------------------------------------------------------------- helpers
\* an abort that leaves the task running
Abort_Ignored(task) == task

\* tokio JoinHandle::abort: cancels a running task, no-op on a finished one
Abort(task) == IF task = "running" THEN "aborted" ELSE task

\* lock_manager.rs:83-87  scopeguard::guard(self, ..): the closure runs when
\* the guard is dropped, i.e. on every return of handle_aenter after line 83
GuardDrop(task) == Abort(task)

Ret(op, exc, path) == [op |-> op, exc |-> exc, path |-> path]

\* --------------------------------------------------- handle_aenter (acquire)
\* the timeout arm reporting a failed revoke with the timeout's error kind
AenterRevokeResult_LockKind(r) ==
    IF r = "Status" THEN Ret("aenter", "LockError", "revoke")
                    ELSE Ret("aenter", "LockError", "timeout")

\* lock_manager.rs:129-138  timeout arm: only Err(GRpcStatus(status)) with a
\* code other than NotFound is returned; Ok, NotFound and every other error
\* variant fall through to the timeout LockError
AenterRevokeResult(r) ==
    IF r = "Status" THEN Ret("aenter", "GRpcStatusError", "revoke")
                    ELSE Ret("aenter", "LockError", "timeout")

\* client.rs:141-155 creates the manager and calls handle_aenter once
AenterStart(m) ==
    /\ pc[m] = "idle"
    /\ phase[m] = "Idle"
    /\ pc' = [pc EXCEPT ![m] = "aenter_connect"]
    /\ phase' = [phase EXCEPT ![m] = "Acquiring"]
    /\ calls' = [calls EXCEPT ![m] = {}]
    /\ UNCHANGED <<config, mgrFields, result, kaTimer, storeVars>>
    /\ UNCHANGED beyondLock

\* lock_manager.rs:78-81  connect failed: `?` returns before the guard exists
AenterConnectFail(m) ==
    /\ pc[m] = "aenter_connect"
    /\ pc' = [pc EXCEPT ![m] = "idle"]
    /\ calls' = [calls EXCEPT ![m] = @ \cup {"connect"}]
    /\ result' = [result EXCEPT ![m] = Ret("aenter", PyErrOf("TransportError"), "connect")]
    /\ phase' = [phase EXCEPT ![m] = "Failed"]
    /\ UNCHANGED <<config, mgrFields, kaTimer, storeVars>>
    /\ UNCHANGED beyondLock

\* lock_manager.rs:78-91  connect succeeded, ttl = Some: lease_grant is sent
AenterConnectTtl(m) ==
    /\ pc[m] = "aenter_connect"
    /\ ttl[m] # None
    /\ pc' = [pc EXCEPT ![m] = "aenter_grant"]
    /\ calls' = [calls EXCEPT ![m] = @ \cup {"connect", "lease_grant"}]
    /\ UNCHANGED <<config, mgrFields, result, phase, kaTimer, storeVars>>
    /\ UNCHANGED beyondLock

\* a handle_aenter that spawns the keepalive task without a lease
AenterConnectNoTtl_Spawns(m) ==
    /\ pc[m] = "aenter_connect"
    /\ ttl[m] = None
    /\ lease_id' = [lease_id EXCEPT ![m] = None]
    /\ lease_keepalive_task' = [lease_keepalive_task EXCEPT ![m] = "running"]
    /\ storeWaiting' = storeWaiting \cup {m}
    /\ pc' = [pc EXCEPT ![m] = "aenter_lock"]
    /\ calls' = [calls EXCEPT ![m] = @ \cup {"connect", "lock"}]
    /\ UNCHANGED <<config, lock_id, result, phase, kaTimer, storeLease,
                   storeOwner, lockResp>>
    /\ UNCHANGED beyondLock

\* lock_manager.rs:78-89,110-123 and 63-70  connect succeeded, ttl = None:
\* lease_id = None and the lock request (without lease) is sent
AenterConnectNoTtl(m) ==
    /\ pc[m] = "aenter_connect"
    /\ ttl[m] = None
    /\ lease_id' = [lease_id EXCEPT ![m] = None]
    /\ storeWaiting' = storeWaiting \cup {m}
    /\ pc' = [pc EXCEPT ![m] = "aenter_lock"]
    /\ calls' = [calls EXCEPT ![m] = @ \cup {"connect", "lock"}]
    /\ UNCHANGED <<config, lock_id, lease_keepalive_task, result, phase,
                   kaTimer, storeLease, storeOwner, lockResp>>
    /\ UNCHANGED beyondLock

\* lock_manager.rs:91  lease_grant failed: `?` returns, the guard finds no task
AenterGrantFail(m) ==
    /\ pc[m] = "aenter_grant"
    /\ pc' = [pc EXCEPT ![m] = "idle"]
    /\ lease_keepalive_task' =
           [lease_keepalive_task EXCEPT ![m] = GuardDrop(@)]
    /\ result' = [result EXCEPT ![m] = Ret("aenter", PyErrOf("GRpcStatus"), "lease_grant")]
    /\ phase' = [phase EXCEPT ![m] = "Failed"]
    /\ UNCHANGED <<config, lock_id, lease_id, calls, kaTimer, storeVars>>
    /\ UNCHANGED beyondLock

\* a granted lease whose keepalive task is spawned but not kept
AenterGrantOk_NoHandle(m) ==
    /\ pc[m] = "aenter_grant"
    /\ storeLease' = [storeLease EXCEPT ![m] = TtlTicks]
    /\ kaTimer' = [kaTimer EXCEPT ![m] = 0]
    /\ lease_id' = [lease_id EXCEPT ![m] = m]
    /\ storeWaiting' = storeWaiting \cup {m}
    /\ pc' = [pc EXCEPT ![m] = "aenter_lock"]
    /\ calls' = [calls EXCEPT ![m] = @ \cup {"lock"}]
    /\ UNCHANGED <<config, lock_id, lease_keepalive_task, result, phase,
                   storeOwner, lockResp>>
    /\ UNCHANGED beyondLock

\* lock_manager.rs:91-123 and 63-70  lease granted: the keepalive task is
\* spawned and stored, lease_id is set, the lock request (with lease) is sent
AenterGrantOk(m) ==
    /\ pc[m] = "aenter_grant"
    /\ storeLease' = [storeLease EXCEPT ![m] = TtlTicks]
    /\ lease_keepalive_task' = [lease_keepalive_task EXCEPT ![m] = "running"]
    /\ kaTimer' = [kaTimer EXCEPT ![m] = 0]
    /\ lease_id' = [lease_id EXCEPT ![m] = m]
    /\ storeWaiting' = storeWaiting \cup {m}
    /\ pc' = [pc EXCEPT ![m] = "aenter_lock"]
    /\ calls' = [calls EXCEPT ![m] = @ \cup {"lock"}]
    /\ UNCHANGED <<config, lock_id, result, phase, storeOwner, lockResp>>
    /\ UNCHANGED beyondLock

\* lock_manager.rs:68-74,125-126  the lock response arrived: lock_id is set,
\* the communicator is returned and the guard is dropped
AenterLockOk(m) ==
    /\ pc[m] = "aenter_lock"
    /\ lockResp[m] = "granted"
    /\ lockResp' = [lockResp EXCEPT ![m] = "none"]
    /\ lock_id' = [lock_id EXCEPT ![m] = m]
    /\ lease_keepalive_task' =
           [lease_keepalive_task EXCEPT ![m] = GuardDrop(@)]
    /\ pc' = [pc EXCEPT ![m] = "idle"]
    /\ result' = [result EXCEPT ![m] = Ret("aenter", "Ok", "ok")]
    /\ phase' = [phase EXCEPT ![m] = "Held"]
    /\ UNCHANGED <<config, lease_id, calls, kaTimer, storeLease, storeOwner,
                   storeWaiting>>
    /\ UNCHANGED beyondLock

\* lock_manager.rs:68-71,127  the lock call failed: the error is converted
\* and returned, the guard is dropped
AenterLockErr(m) ==
    /\ pc[m] = "aenter_lock"
    /\ lockResp[m] \in LockCallErrors
    /\ lockResp' = [lockResp EXCEPT ![m] = "none"]
    /\ lease_keepalive_task' =
           [lease_keepalive_task EXCEPT ![m] = GuardDrop(@)]
    /\ pc' = [pc EXCEPT ![m] = "idle"]
    /\ result' = [result EXCEPT ![m] = Ret("aenter", PyErrOf(lockResp[m]), "lock_call")]
    /\ phase' = [phase EXCEPT ![m] = "Failed"]
    /\ UNCHANGED <<config, lock_id, lease_id, calls, kaTimer, storeLease,
                   storeOwner, storeWaiting>>
    /\ UNCHANGED beyondLock

\* lock_manager.rs:113-121,128-131  the deadline elapsed before the lock
\* response was received: the try_lock future is dropped (the pending request
\* is withdrawn, a response already on its way is discarded); with a lease
\* the revoke is sent
AenterTimeoutLease(m) ==
    /\ pc[m] = "aenter_lock"
    /\ timeout_seconds[m] # None
    /\ lease_id[m] # None
    /\ storeWaiting' = storeWaiting \ {m}
    /\ lockResp' = [lockResp EXCEPT ![m] = "none"]
    /\ pc' = [pc EXCEPT ![m] = "aenter_revoke"]
    /\ calls' = [calls EXCEPT ![m] = @ \cup {"lease_revoke"}]
    /\ phase' = [phase EXCEPT ![m] = "TimedOut"]
    /\ UNCHANGED <<config, mgrFields, result, kaTimer, storeLease, storeOwner>>
    /\ UNCHANGED beyondLock

\* lock_manager.rs:113-121,128-129,138  the deadline elapsed, no lease: the
\* timeout LockError is returned, the guard is dropped
AenterTimeoutNoLease(m) ==
    /\ pc[m] = "aenter_lock"
    /\ timeout_seconds[m] # None
    /\ lease_id[m] = None
    /\ storeWaiting' = storeWaiting \ {m}
    /\ lockResp' = [lockResp EXCEPT ![m] = "none"]
    /\ lease_keepalive_task' =
           [lease_keepalive_task EXCEPT ![m] = GuardDrop(@)]
    /\ pc' = [pc EXCEPT ![m] = "idle"]
    /\ result' = [result EXCEPT ![m] = Ret("aenter", "LockError", "timeout")]
    /\ phase' = [phase EXCEPT ![m] = "TimedOut"]
    /\ UNCHANGED <<config, lock_id, lease_id, calls, kaTimer, storeLease,
                   storeOwner>>
    /\ UNCHANGED beyondLock

\* lock_manager.rs:129-138  the revoke of the timeout arm completed
AenterRevokeDone(m) ==
    /\ pc[m] = "aenter_revoke"
    /\ \E r \in RevokeOutcomes :
          /\ RevokePossible(m, r)
          /\ storeLease' = RevokeStoreLease(m, r)
          /\ storeOwner' = RevokeStoreOwner(m, r)
          /\ result' = [result EXCEPT ![m] = AenterRevokeResult(r)]
    /\ lease_keepalive_task' =
           [lease_keepalive_task EXCEPT ![m] = GuardDrop(@)]
    /\ pc' = [pc EXCEPT ![m] = "idle"]
    /\ UNCHANGED <<config, lock_id, lease_id, calls, phase, kaTimer,
                   storeWaiting, lockResp>>
    /\ UNCHANGED beyondLock

\* --------------------------------------------------- handle_aexit (release)
\* lock_manager.rs:160-167  release arm: only Err(GRpcStatus(status)) with a
\* code other than NotFound is returned; everything else falls through to Ok
AexitRevokeResult(r) ==
    IF r = "Status" THEN Ret("aexit", "GRpcStatusError", "revoke")
                    ELSE Ret("aexit", "Ok", "ok")

\* the caller's view of a manager on which release is being called
PhaseOnRelease(p) == IF p \in {"Held", "ReleaseFailed"} THEN "Releasing" ELSE p

\* the caller's view of a manager whose release returned an error
PhaseOnReleaseErr(p) == IF p = "Releasing" THEN "ReleaseFailed" ELSE p

\* client.rs:181-183  __aexit__ calls handle_aexit under the manager's mutex
AexitStart(m) ==
    /\ pc[m] = "idle"
    /\ pc' = [pc EXCEPT ![m] = "aexit_connect"]
    /\ phase' = [phase EXCEPT ![m] = PhaseOnRelease(@)]
    /\ calls' = [calls EXCEPT ![m] = {}]
    /\ UNCHANGED <<config, mgrFields, result, kaTimer, storeVars>>
    /\ UNCHANGED beyondLock

\* lock_manager.rs:144-147  connect failed: `?` returns
AexitConnectFail(m) ==
    /\ pc[m] = "aexit_connect"
    /\ pc' = [pc EXCEPT ![m] = "idle"]
    /\ calls' = [calls EXCEPT ![m] = @ \cup {"connect"}]
    /\ result' = [result EXCEPT ![m] = Ret("aexit", PyErrOf("TransportError"), "connect")]
    /\ phase' = [phase EXCEPT ![m] = PhaseOnReleaseErr(@)]
    /\ UNCHANGED <<config, mgrFields, kaTimer, storeVars>>
    /\ UNCHANGED beyondLock

\* lock_manager.rs:144-154  connected, lock_id = None: precondition LockError
AexitNotAcquired(m) ==
    /\ pc[m] = "aexit_connect"
    /\ lock_id[m] = None
    /\ pc' = [pc EXCEPT ![m] = "idle"]
    /\ calls' = [calls EXCEPT ![m] = @ \cup {"connect"}]
    /\ result' = [result EXCEPT ![m] = Ret("aexit", "LockError", "precondition")]
    /\ phase' = [phase EXCEPT ![m] = PhaseOnReleaseErr(@)]
    /\ UNCHANGED <<config, mgrFields, kaTimer, storeVars>>
    /\ UNCHANGED beyondLock

\* a release with a lease that sends the unlock as well as the revoke
AexitSendRevoke_AndUnlock(m) ==
    /\ pc[m] = "aexit_connect"
    /\ lock_id[m] # None
    /\ lease_id[m] # None
    /\ lease_keepalive_task' = [lease_keepalive_task EXCEPT ![m] = Abort(@)]
    /\ pc' = [pc EXCEPT ![m] = "aexit_revoke"]
    /\ calls' = [calls EXCEPT ![m] =
                    @ \cup {"connect", "lease_revoke", "unlock"}]
    /\ UNCHANGED <<config, lock_id, lease_id, result, phase, kaTimer, storeVars>>
    /\ UNCHANGED beyondLock

\* lock_manager.rs:144-162  connected, lock held with a lease: the keepalive
\* task is aborted and lease_revoke is sent
AexitSendRevoke(m) ==
    /\ pc[m] = "aexit_connect"
    /\ lock_id[m] # None
    /\ lease_id[m] # None
    /\ lease_keepalive_task' = [lease_keepalive_task EXCEPT ![m] = Abort(@)]
    /\ pc' = [pc EXCEPT ![m] = "aexit_revoke"]
    /\ calls' = [calls EXCEPT ![m] = @ \cup {"connect", "lease_revoke"}]
    /\ UNCHANGED <<config, lock_id, lease_id, result, phase, kaTimer, storeVars>>
    /\ UNCHANGED beyondLock

\* lock_manager.rs:144-158,168-171  connected, lock held without a lease:
\* unlock(lock_id) is sent
AexitSendUnlock(m) ==
    /\ pc[m] = "aexit_connect"
    /\ lock_id[m] # None
    /\ lease_id[m] = None
    /\ lease_keepalive_task' = [lease_keepalive_task EXCEPT ![m] = Abort(@)]
    /\ pc' = [pc EXCEPT ![m] = "aexit_unlock"]
    /\ calls' = [calls EXCEPT ![m] = @ \cup {"connect", "unlock"}]
    /\ UNCHANGED <<config, lock_id, lease_id, result, phase, kaTimer, storeVars>>
    /\ UNCHANGED beyondLock

\* lock_manager.rs:160-167,177-180  the revoke completed
AexitRevokeDone(m) ==
    /\ pc[m] = "aexit_revoke"
    /\ \E r \in RevokeOutcomes :
          /\ RevokePossible(m, r)
          /\ storeLease' = RevokeStoreLease(m, r)
          /\ storeOwner' = RevokeStoreOwner(m, r)
          /\ result' = [result EXCEPT ![m] = AexitRevokeResult(r)]
          /\ IF AexitRevokeResult(r).exc = "Ok"
             THEN /\ lock_id' = [lock_id EXCEPT ![m] = None]
                  /\ lease_id' = [lease_id EXCEPT ![m] = None]
                  /\ phase' = [phase EXCEPT ![m] = "Released"]
             ELSE /\ UNCHANGED <<lock_id, lease_id>>
                  /\ phase' = [phase EXCEPT ![m] = PhaseOnReleaseErr(@)]
    /\ pc' = [pc EXCEPT ![m] = "idle"]
    /\ UNCHANGED <<config, lease_keepalive_task, calls, kaTimer, storeWaiting,
                   lockResp>>
    /\ UNCHANGED beyondLock

\* lock_manager.rs:169-180  unlock succeeded: the store frees the key, the
\* fields are cleared
AexitUnlockOk(m) ==
    /\ pc[m] = "aexit_unlock"
    /\ storeOwner' = IF storeOwner = lock_id[m] THEN None ELSE storeOwner
    /\ lock_id' = [lock_id EXCEPT ![m] = None]
    /\ lease_id' = [lease_id EXCEPT ![m] = None]
    /\ pc' = [pc EXCEPT ![m] = "idle"]
    /\ result' = [result EXCEPT ![m] = Ret("aexit", "Ok", "ok")]
    /\ phase' = [phase EXCEPT ![m] = "Released"]
    /\ UNCHANGED <<config, lease_keepalive_task, calls, kaTimer, storeLease,
                   storeWaiting, lockResp>>
    /\ UNCHANGED beyondLock

\* lock_manager.rs:169-172  unlock failed: `?` returns, nothing is cleared
AexitUnlockErr(m) ==
    /\ pc[m] = "aexit_unlock"
    /\ pc' = [pc EXCEPT ![m] = "idle"]
    /\ result' = [result EXCEPT ![m] = Ret("aexit", PyErrOf("GRpcStatus"), "unlock")]
    /\ phase' = [phase EXCEPT ![m] = PhaseOnReleaseErr(@)]
    /\ UNCHANGED <<config, mgrFields, calls, kaTimer, storeVars>>
    /\ UNCHANGED beyondLock

\* ------------------------------------------------------ keepalive task, time
\* lock_manager.rs:102-105  the sleep of ttl/10 is over: keep_alive() is sent
\* and the store resets the lease's countdown
Heartbeat(m) ==
    /\ lease_keepalive_task[m] = "running"
    /\ kaTimer[m] >= 1
    /\ kaTimer' = [kaTimer EXCEPT ![m] = 0]
    /\ storeLease' = [storeLease EXCEPT ![m] = IF @ > 0 THEN TtlTicks ELSE 0]
    /\ UNCHANGED <<config, mgrFields, pc, result, calls, phase, storeOwner,
                   storeWaiting, lockResp>>
    /\ UNCHANGED beyondLock

\* lock_manager.rs:104  keep_alive() failed: `?` ends the task with the error
HeartbeatFail(m) ==
    /\ lease_keepalive_task[m] = "running"
    /\ kaTimer[m] >= 1
    /\ lease_keepalive_task' = [lease_keepalive_task EXCEPT ![m] = "failed"]
    /\ UNCHANGED <<config, lock_id, lease_id, pc, result, calls, phase,
                   kaTimer, storeVars>>
    /\ UNCHANGED beyondLock

\* ttl/10 seconds pass: a running keepalive task whose sleep is over acts
\* before more time passes; every lease counts down and a lease at zero
\* expires, which frees the lock scoped to it
Tick ==
    /\ \E m \in Mgrs : LeaseLive(m)
    /\ \A m \in Mgrs : lease_keepalive_task[m] = "running" => kaTimer[m] < 1
    /\ kaTimer' = [m \in Mgrs |->
                      IF lease_keepalive_task[m] = "running" THEN 1 ELSE kaTimer[m]]
    /\ storeLease' = [m \in Mgrs |->
                         IF storeLease[m] > 0 THEN storeLease[m] - 1 ELSE 0]
    /\ storeOwner' = IF /\ storeOwner # None
                        /\ LeaseBound(storeOwner)
                        /\ storeLease[storeOwner] <= 1
                     THEN None ELSE storeOwner
    /\ UNCHANGED <<config, mgrFields, pc, result, calls, phase, storeWaiting,
                   lockResp>>
    /\ UNCHANGED beyondLock

\* ------------------------------------------------------------- backing store
\* the store grants the free lock to a pending request (a request scoped to a
\* lease needs the lease to be alive)
StoreGrant(m) ==
    /\ m \in storeWaiting
    /\ storeOwner = None
    /\ LeaseBound(m) => LeaseLive(m)
    /\ storeOwner' = m
    /\ storeWaiting' = storeWaiting \ {m}
    /\ lockResp' = [lockResp EXCEPT ![m] = "granted"]
    /\ UNCHANGED <<config, mgrFields, pc, result, calls, phase, kaTimer,
                   storeLease>>
    /\ UNCHANGED beyondLock

\* the store answers a pending lock request with an error
StoreLockFail(m) ==
    /\ m \in storeWaiting
    /\ storeWaiting' = storeWaiting \ {m}
    /\ \E e \in LockCallErrors : lockResp' = [lockResp EXCEPT ![m] = e]
    /\ UNCHANGED <<config, mgrFields, pc, result, calls, phase, kaTimer,
                   storeLease, storeOwner>>
    /\ UNCHANGED beyondLock

LockNext ==
    \/ \E m \in Mgrs : AenterStart(m)
    \/ \E m \in Mgrs : AenterConnectFail(m)
    \/ \E m \in Mgrs : AenterConnectTtl(m)
    \/ \E m \in Mgrs : AenterConnectNoTtl(m)
    \/ \E m \in Mgrs : AenterGrantFail(m)
    \/ \E m \in Mgrs : AenterGrantOk(m)
    \/ \E m \in Mgrs : AenterLockOk(m)
    \/ \E m \in Mgrs : AenterLockErr(m)
    \/ \E m \in Mgrs : AenterTimeoutLease(m)
    \/ \E m \in Mgrs : AenterTimeoutNoLease(m)
    \/ \E m \in Mgrs : AenterRevokeDone(m)
    \/ \E m \in Mgrs : AexitStart(m)
    \/ \E m \in Mgrs : AexitConnectFail(m)
    \/ \E m \in Mgrs : AexitNotAcquired(m)
    \/ \E m \in Mgrs : AexitSendRevoke(m)
    \/ \E m \in Mgrs : AexitSendUnlock(m)
    \/ \E m \in Mgrs : AexitRevokeDone(m)
    \/ \E m \in Mgrs : AexitUnlockOk(m)
    \/ \E m \in Mgrs : AexitUnlockErr(m)
    \/ \E m \in Mgrs : Heartbeat(m)
    \/ \E m \in Mgrs : HeartbeatFail(m)
    \/ \E m \in Mgrs : StoreGrant(m)
    \/ \E m \in Mgrs : StoreLockFail(m)
    \/ Tick


\* ------------------------------------------------------------ type invariant
LockTypeOK ==
    /\ lock_id \in [Mgrs -> Mgrs \cup {None}]
    /\ lease_id \in [Mgrs -> Mgrs \cup {None}]
    /\ lease_keepalive_task \in [Mgrs -> {None, "running", "aborted", "failed"}]
    /\ storeLease \in [Mgrs -> 0..TtlTicks]
    /\ storeOwner \in Mgrs \cup {None}
    /\ storeWaiting \subseteq Mgrs


\* ====================================================== client sessions
\* client.rs: every `async with client` brackets one session with
\* enter_context() / exit_context() of the runtime bridge.  The bridge's
\* context counter is not part of the sources; it is taken from the
\* specification (section 4.1): a counter of open sessions, exit_context
\* returning true iff the count went from 1 to 0.
Sessions == {"s1", "s2", "s3"}

CtxInit ==
    /\ lock_options \in [Sessions -> {None, "Some"}]
    /\ active_contexts = 0
    /\ session = [s \in Sessions |-> "new"]
    /\ is_last = [s \in Sessions |-> FALSE]
    /\ period_enters = 0
    /\ period_exits = 0
    /\ period_trues = 0

\* the counter after enter_context()
EnterContext(n) == n + 1

\* the counter after exit_context()
ExitContext(n) == n - 1

\* exit_context() called at count n: true iff the count goes from 1 to 0
ExitContextReturns(n) == n = 1

\* one call of enter_context(), with its history
EnterContextCall ==
    /\ active_contexts' = EnterContext(active_contexts)
    /\ period_enters' = IF active_contexts = 0 THEN 1 ELSE period_enters + 1
    /\ period_exits' = IF active_contexts = 0 THEN 0 ELSE period_exits
    /\ period_trues' = IF active_contexts = 0 THEN 0 ELSE period_trues

\* one call of exit_context(), with its history
ExitContextCall ==
    /\ active_contexts' = ExitContext(active_contexts)
    /\ period_exits' = period_exits + 1
    /\ period_trues' = period_trues
                       + (IF ExitContextReturns(active_contexts) THEN 1 ELSE 0)
    /\ UNCHANGED period_enters

ctxCounters == <<active_contexts, period_enters, period_exits, period_trues>>

\* a variant of __aenter__ that omits enter_context()
ClientAenter_NoEnter(s) ==
    /\ session[s] = "new"
    /\ session' = [session EXCEPT ![s] = "connecting"]
    /\ UNCHANGED <<lock_options, is_last, ctxCounters>>
    /\ UNCHANGED beyondCtx

\* __aenter__ is called: enter_context() runs at once, the connect is spawned
ClientAenter(s) ==
    /\ session[s] = "new"
    /\ EnterContextCall
    /\ session' = [session EXCEPT ![s] = "connecting"]
    /\ UNCHANGED <<lock_options, is_last>>
    /\ UNCHANGED beyondCtx

\* connect failed: exit_context() is called, its result dropped, the error raised
ClientConnectFail(s) ==
    /\ session[s] = "connecting"
    /\ ExitContextCall
    /\ session' = [session EXCEPT ![s] = "failed"]
    /\ UNCHANGED <<lock_options, is_last>>
    /\ UNCHANGED beyondCtx

\* connect succeeded: a plain session is open, a lock session acquires
ClientConnectOk(s) ==
    /\ session[s] = "connecting"
    /\ session' = [session EXCEPT ![s] =
                     IF lock_options[s] = None THEN "open" ELSE "acquiring"]
    /\ UNCHANGED <<lock_options, is_last, ctxCounters>>
    /\ UNCHANGED beyondCtx

\* handle_aenter returned the communicator
ClientAcquireOk(s) ==
    /\ session[s] = "acquiring"
    /\ session' = [session EXCEPT ![s] = "open"]
    /\ UNCHANGED <<lock_options, is_last, ctxCounters>>
    /\ UNCHANGED beyondCtx

\* handle_aenter failed: `?` raises, exit_context() is not called
ClientAcquireFail(s) ==
    /\ session[s] = "acquiring"
    /\ session' = [session EXCEPT ![s] = "failed"]
    /\ UNCHANGED <<lock_options, is_last, ctxCounters>>
    /\ UNCHANGED beyondCtx

\* __aexit__ is called: inner_cleanup is spawned, the wrapper awaits it
ClientAexit(s) ==
    /\ session[s] = "open"
    /\ session' = [session EXCEPT ![s] = "cleanup"]
    /\ UNCHANGED <<lock_options, is_last, ctxCounters>>
    /\ UNCHANGED beyondCtx

\* inner_cleanup: handle_aexit failed, `?` raises before exit_context()
ClientCleanupFail(s) ==
    /\ session[s] = "cleanup"
    /\ lock_options[s] # None
    /\ session' = [session EXCEPT ![s] = "failed"]
    /\ UNCHANGED <<lock_options, is_last, ctxCounters>>
    /\ UNCHANGED beyondCtx

\* inner_cleanup ends with exit_context(); its result goes to the wrapper
ClientCleanupOk(s) ==
    /\ session[s] = "cleanup"
    /\ ExitContextCall
    /\ is_last' = [is_last EXCEPT ![s] = ExitContextReturns(active_contexts)]
    /\ session' = [session EXCEPT ![s] = "wrapper"]
    /\ UNCHANGED lock_options
    /\ UNCHANGED beyondCtx

\* a wrapper that triggers the shutdown whatever is_last says
WrapperNotLast_Triggers(s) ==
    /\ session[s] = "wrapper"
    /\ ~is_last[s]
    /\ session' = [session EXCEPT ![s] = "join"]
    /\ UNCHANGED <<lock_options, is_last, ctxCounters>>
    /\ UNCHANGED beyondCtx

\* the wrapper resumes with is_last false
WrapperNotLast(s) ==
    /\ session[s] = "wrapper"
    /\ ~is_last[s]
    /\ session' = [session EXCEPT ![s] = "closed"]
    /\ UNCHANGED <<lock_options, is_last, ctxCounters>>
    /\ UNCHANGED beyondCtx

\* the wrapper resumes with is_last true and calls trigger_shutdown_fn()
WrapperTrigger(s) ==
    /\ session[s] = "wrapper"
    /\ is_last[s]
    /\ session' = [session EXCEPT ![s] = "join"]
    /\ UNCHANGED <<lock_options, is_last, ctxCounters>>
    /\ UNCHANGED beyondCtx

\* await to_thread(join_fn) returned
WrapperJoin(s) ==
    /\ session[s] = "join"
    /\ session' = [session EXCEPT ![s] = "closed"]
    /\ UNCHANGED <<lock_options, is_last, ctxCounters>>
    /\ UNCHANGED beyondCtx

CtxNext ==
    \/ \E s \in Sessions : ClientAenter(s)
    \/ \E s \in Sessions : ClientConnectFail(s)
    \/ \E s \in Sessions : ClientConnectOk(s)
    \/ \E s \in Sessions : ClientAcquireOk(s)
    \/ \E s \in Sessions : ClientAcquireFail(s)
    \/ \E s \in Sessions : ClientAexit(s)
    \/ \E s \in Sessions : ClientCleanupFail(s)
    \/ \E s \in Sessions : ClientCleanupOk(s)
    \/ \E s \in Sessions : WrapperNotLast(s)
    \/ \E s \in Sessions : WrapperTrigger(s)
    \/ \E s \in Sessions : WrapperJoin(s)

\* ======================================================= runtime bridge
\* runtime.rs: bridged tasks counted in ACTIVE_TASKS, the management
\* thread parked on shutdown_notifier, and _cleanup_runtime.
Tasks == {"t1", "t2"}

\* sleeps of wait_for_tasks that fill the grace period (5000 ms / 50 ms in
\* the source; the model counts the period in fewer, longer sleeps)
GracePolls == 2

\* _cleanup_runtime calls followed in one run
MaxCleanups == 2

RtInit ==
    /\ RUNTIME = None
    /\ ACTIVE_TASKS = 0
    /\ task_state = [t \in Tasks |-> "unspawned"]
    /\ cleanup = "idle"
    /\ elapsed = 0
    /\ thread = "none"
    /\ permit = FALSE
    /\ cleanups = 0
    /\ panicked = FALSE

\* _cleanup_runtime is a #[pyfunction]: it holds the host interpreter's
\* lock from entry to return, its sleeps included
GilFree == cleanup = "idle"

\* the shutdown notifier has been signalled
Signaled == permit \/ thread \in {"woken", "exited"}

\* uninitialized -> initialized -> shutting-down -> terminated
Lifecycle ==
    IF RUNTIME = None THEN "uninitialized"
    ELSE IF thread = "exited" THEN "terminated"
    ELSE IF Signaled THEN "shutting-down"
    ELSE "initialized"

\* a task between the end of its future and the delivery of its result
Returning(t) == task_state[t] \in {"finished", "returning"}

\* get_or_init: the first caller builds EtcdRt and starts the thread
GetOrInit ==
    /\ RUNTIME' = "EtcdRt"
    /\ thread' = IF RUNTIME = None THEN "starting" ELSE thread

\* spawn: the counter is incremented, the wrapped future handed to the host
TaskSpawn(t) ==
    /\ task_state[t] = "unspawned"
    /\ GilFree
    /\ GetOrInit
    /\ ACTIVE_TASKS' = ACTIVE_TASKS + 1
    /\ task_state' = [task_state EXCEPT ![t] = "running"]
    /\ UNCHANGED <<cleanup, elapsed, permit, cleanups, panicked>>
    /\ UNCHANGED beyondRt

\* spawn: future_into_py returns Err, the wrapped future is dropped unrun
TaskSpawnFail(t) ==
    /\ task_state[t] = "unspawned"
    /\ GilFree
    /\ GetOrInit
    /\ ACTIVE_TASKS' = ACTIVE_TASKS + 1
    /\ task_state' = [task_state EXCEPT ![t] = "dropped"]
    /\ UNCHANGED <<cleanup, elapsed, permit, cleanups, panicked>>
    /\ UNCHANGED beyondRt

\* `let result = fut.await;` completes
TaskFutDone(t) ==
    /\ task_state[t] = "running"
    /\ task_state' = [task_state EXCEPT ![t] = "finished"]
    /\ UNCHANGED <<RUNTIME, ACTIVE_TASKS, cleanup, elapsed, thread, permit,
                   cleanups, panicked>>
    /\ UNCHANGED beyondRt

\* ACTIVE_TASKS.fetch_sub(1); the result is now being returned to the host
TaskDecrement(t) ==
    /\ task_state[t] = "finished"
    /\ ACTIVE_TASKS' = ACTIVE_TASKS - 1
    /\ task_state' = [task_state EXCEPT ![t] = "returning"]
    /\ UNCHANGED <<RUNTIME, cleanup, elapsed, thread, permit, cleanups,
                   panicked>>
    /\ UNCHANGED beyondRt

\* the bridge takes the interpreter lock and sets the host future's result
TaskDeliver(t) ==
    /\ task_state[t] = "returning"
    /\ GilFree
    /\ task_state' = [task_state EXCEPT ![t] = "delivered"]
    /\ UNCHANGED <<RUNTIME, ACTIVE_TASKS, cleanup, elapsed, thread, permit,
                   cleanups, panicked>>
    /\ UNCHANGED beyondRt

\* what _cleanup_runtime does when RUNTIME.get() is None
CleanupOnUnset == "return"

\* _cleanup_runtime with no runtime: `if let Some(rt)` skips the body
CleanupSkip ==
    /\ cleanup = "idle"
    /\ cleanups < MaxCleanups
    /\ RUNTIME = None
    /\ cleanups' = cleanups + 1
    /\ panicked' = (panicked \/ CleanupOnUnset = "panic")
    /\ UNCHANGED <<RUNTIME, ACTIVE_TASKS, task_state, cleanup, elapsed, thread,
                   permit>>
    /\ UNCHANGED beyondRt

\* _cleanup_runtime with a runtime: wait_for_tasks(5000) starts its clock
CleanupStart ==
    /\ cleanup = "idle"
    /\ cleanups < MaxCleanups
    /\ RUNTIME # None
    /\ cleanup' = "waiting"
    /\ elapsed' = 0
    /\ UNCHANGED <<RUNTIME, ACTIVE_TASKS, task_state, thread, permit, cleanups,
                   panicked>>
    /\ UNCHANGED beyondRt

\* `start.elapsed() >= timeout` without a timeout
WaitTimedOut_Never(e) == FALSE

\* `start.elapsed() >= timeout`
WaitTimedOut(e) == e >= GracePolls

\* one turn of the loop of wait_for_tasks
CleanupPoll ==
    /\ cleanup = "waiting"
    /\ IF ACTIVE_TASKS = 0 \/ WaitTimedOut(elapsed)
       THEN cleanup' = "notify" /\ UNCHANGED elapsed
       ELSE /\ elapsed' = IF elapsed < GracePolls THEN elapsed + 1 ELSE elapsed
            /\ UNCHANGED cleanup
    /\ UNCHANGED <<RUNTIME, ACTIVE_TASKS, task_state, thread, permit, cleanups,
                   panicked>>
    /\ UNCHANGED beyondRt

\* a notifier that forgets a notification sent while one is already stored
NotifyOnePermit_Toggle(waiting, stored) == ~waiting /\ ~stored

\* a notifier that wakes a parked waiter but stores nothing without one
NotifyOnePermit_Lost(waiting, stored) == FALSE

\* Notify::notify_one: a parked waiter takes the notification, otherwise one
\* permit is stored
NotifyOnePermit(waiting, stored) == stored \/ ~waiting

\* shutdown_notifier.notify_one(), then _cleanup_runtime returns
CleanupNotify ==
    /\ cleanup = "notify"
    /\ permit' = NotifyOnePermit(thread = "waiting", permit)
    /\ thread' = IF thread = "waiting" THEN "woken" ELSE thread
    /\ cleanup' = "idle"
    /\ cleanups' = cleanups + 1
    /\ UNCHANGED <<RUNTIME, ACTIVE_TASKS, task_state, elapsed, panicked>>
    /\ UNCHANGED beyondRt

\* the management thread reaches notify_clone.notified().await
MgmtAwait ==
    /\ thread = "starting"
    /\ thread' = IF permit THEN "woken" ELSE "waiting"
    /\ permit' = FALSE
    /\ UNCHANGED <<RUNTIME, ACTIVE_TASKS, task_state, cleanup, elapsed, cleanups,
                   panicked>>
    /\ UNCHANGED beyondRt

\* block_on returns and the management thread ends
MgmtExit ==
    /\ thread = "woken"
    /\ thread' = "exited"
    /\ UNCHANGED <<RUNTIME, ACTIVE_TASKS, task_state, cleanup, elapsed, permit,
                   cleanups, panicked>>
    /\ UNCHANGED beyondRt

RtNext ==
    \/ \E t \in Tasks : TaskSpawn(t)
    \/ \E t \in Tasks : TaskSpawnFail(t)
    \/ \E t \in Tasks : TaskFutDone(t)
    \/ \E t \in Tasks : TaskDecrement(t)
    \/ \E t \in Tasks : TaskDeliver(t)
    \/ CleanupSkip
    \/ CleanupStart
    \/ CleanupPoll
    \/ CleanupNotify
    \/ MgmtAwait
    \/ MgmtExit

\* ===================================================== condition signal
\* condvar.rs: a flag behind a mutex and a tokio Notify.  Each locked
\* section is one read or one write of the flag, so it is one step; the
\* guard is released before the next statement runs.
Waiters == {"w1", "w2"}
Notifiers == {"n1", "n2"}

CvInit ==
    /\ condition = FALSE
    /\ waiter = [w \in Waiters |-> "idle"]
    /\ notifier = [n \in Notifiers |-> "idle"]

\* wait() is called: the task is spawned
WaitStart(w) ==
    /\ waiter[w] = "idle"
    /\ waiter' = [waiter EXCEPT ![w] = "check"]
    /\ UNCHANGED <<condition, notifier>>
    /\ UNCHANGED beyondCv

\* `while !*condition.lock().await`: the flag is read under the lock and the
\* guard dropped; true ends wait(), false enters the loop body
WaitCheck(w) ==
    /\ waiter[w] = "check"
    /\ waiter' = [waiter EXCEPT ![w] = IF condition THEN "done" ELSE "body"]
    /\ UNCHANGED <<condition, notifier>>
    /\ UNCHANGED beyondCv

\* `inner.notified()`: from its creation on the future receives the wakeups
\* of notify_waiters
WaitRegister(w) ==
    /\ waiter[w] = "body"
    /\ waiter' = [waiter EXCEPT ![w] = "parked"]
    /\ UNCHANGED <<condition, notifier>>
    /\ UNCHANGED beyondCv

\* notify_waiters / _notify_waiters is called
NotifyStart(n) ==
    /\ notifier[n] = "idle"
    /\ notifier' = [notifier EXCEPT ![n] = "set"]
    /\ UNCHANGED <<condition, waiter>>
    /\ UNCHANGED beyondCv

\* a write that inverts the flag
FlagWritten_Toggle(c) == ~c

\* `*condition.lock().await = true`: the value the flag takes
FlagWritten(c) == TRUE

\* the notifier sets the flag under the lock and drops the guard
NotifySet(n) ==
    /\ notifier[n] = "set"
    /\ condition' = FlagWritten(condition)
    /\ notifier' = [notifier EXCEPT ![n] = "notify"]
    /\ UNCHANGED waiter
    /\ UNCHANGED beyondCv

\* Notify::notify_waiters: wakes the futures that exist now and stores no
\* permit; a woken waiter goes back to the head of its loop
Woken(st) == IF st = "parked" THEN "check" ELSE st

\* `inner.notify_waiters()`
NotifyWake(n) ==
    /\ notifier[n] = "notify"
    /\ waiter' = [w \in Waiters |-> Woken(waiter[w])]
    /\ notifier' = [notifier EXCEPT ![n] = "done"]
    /\ UNCHANGED condition
    /\ UNCHANGED beyondCv

CvNext ==
    \/ \E w \in Waiters : WaitStart(w)
    \/ \E w \in Waiters : WaitCheck(w)
    \/ \E w \in Waiters : WaitRegister(w)
    \/ \E n \in Notifiers : NotifyStart(n)
    \/ \E n \in Notifiers : NotifySet(n)
    \/ \E n \in Notifiers : NotifyWake(n)

\* ======================================================== watch session
\* watch.rs and watch_event_stream.rs: one watch session, the PyWatch
\* objects that share its state through Arc, the __anext__ futures polling
\* it, and the store's side of the watch.
Pollers == {"p1", "p2"}

\* PyWatch objects of one session (the first and its __aiter__ clones)
MaxHandles == 2

\* events the store sends in one run, and at most in one response
MaxEvents == 3
MaxBatch == 2

\* responses in flight between the store and the stream
MaxInflight == 2

Res(kind, ev) == [kind |-> kind, ev |-> ev]
NoRet == Res("none", 0)

Batch(evs) == [kind |-> "batch", evs |-> evs]
StreamErr == [kind |-> "err", evs |-> <<>>]

watchFields == <<once, handles, event_stream, watcher, ready_event>>
cursor      == <<events, index>>
storeSide   == <<server_watch, inflight, emitted>>
watchHist   == <<init_ran, watch_called, watches_made, streams_made>>

WatchInit ==
    /\ once \in BOOLEAN
    /\ ready_event \in {None, "clear"}
    /\ handles = 0
    /\ event_stream = None
    /\ watcher = None
    /\ es_lock = None
    /\ events = <<>>
    /\ index = 0
    /\ poll = [p \in Pollers |-> "idle"]
    /\ ret = [p \in Pollers |-> NoRet]
    /\ server_watch = "none"
    /\ inflight = <<>>
    /\ emitted = 0
    /\ cancel_sent = FALSE
    /\ yielded = <<>>
    /\ init_ran = FALSE
    /\ watch_called = FALSE
    /\ watches_made = 0
    /\ streams_made = 0

\* a constructor that opens the server-side watch at once
WatchNew_Eager ==
    /\ handles = 0
    /\ handles' = 1
    /\ server_watch' = "open"
    /\ watch_called' = TRUE
    /\ watches_made' = watches_made + 1
    /\ UNCHANGED <<once, event_stream, watcher, ready_event, es_lock, cursor,
                   poll, ret,
                   inflight, emitted, cancel_sent, yielded, init_ran,
                   streams_made>>
    /\ UNCHANGED beyondWatch

\* communicator.watch / watch_prefix -> PyWatch::new: only fields are built
WatchNew ==
    /\ handles = 0
    /\ handles' = 1
    /\ UNCHANGED <<once, event_stream, watcher, ready_event, es_lock, cursor,
                   poll, ret,
                   storeSide, cancel_sent, yielded, watchHist>>
    /\ UNCHANGED beyondWatch

\* __aiter__: self.clone(), the Arc fields are shared
WatchAiter ==
    /\ handles >= 1
    /\ handles < MaxHandles
    /\ handles' = handles + 1
    /\ UNCHANGED <<once, event_stream, watcher, ready_event, es_lock, cursor,
                   poll, ret,
                   storeSide, cancel_sent, yielded, watchHist>>
    /\ UNCHANGED beyondWatch

\* __anext__ is called on a PyWatch: the future is spawned
AnextStart(p) ==
    /\ handles >= 1
    /\ poll[p] = "idle"
    /\ poll' = [poll EXCEPT ![p] = "init"]
    /\ UNCHANGED <<watchFields, es_lock, cursor, ret, storeSide, cancel_sent,
                   yielded, watchHist>>
    /\ UNCHANGED beyondWatch

\* an init() that never takes the early return
InitSkips_Never(es) == FALSE

\* init(): `if event_stream.is_some() { return Ok(()) }`
InitSkips(es) == es # None

\* init() takes the event_stream mutex; with a stream it returns at once
\* (the guard is dropped), without one it calls client.watch under the lock
InitLocked(p) ==
    /\ poll[p] = "init"
    /\ es_lock = None
    /\ init_ran' = TRUE
    /\ IF InitSkips(event_stream)
       THEN /\ poll' = [poll EXCEPT ![p] = "relock"]
            /\ UNCHANGED <<es_lock, watch_called>>
       ELSE /\ poll' = [poll EXCEPT ![p] = "init_watch"]
            /\ es_lock' = p
            /\ watch_called' = TRUE
    /\ UNCHANGED <<watchFields, cursor, ret, storeSide, cancel_sent, yielded,
                   watches_made, streams_made>>
    /\ UNCHANGED beyondWatch

\* client.watch returned Ok((watcher, stream)): both are stored; without a
\* ready_event init returns, with one it goes on to _notify_waiters, the
\* event_stream guard still held
InitWatchOk(p) ==
    /\ poll[p] = "init_watch"
    /\ event_stream' = "Some"
    /\ watcher' = "Some"
    /\ server_watch' = "open"
    /\ watches_made' = watches_made + 1
    /\ streams_made' = streams_made + 1
    /\ IF ready_event = None
       THEN /\ es_lock' = None
            /\ poll' = [poll EXCEPT ![p] = "relock"]
       ELSE /\ UNCHANGED es_lock
            /\ poll' = [poll EXCEPT ![p] = "init_ready"]
    /\ UNCHANGED <<once, handles, ready_event, cursor, ret, inflight, emitted,
                   cancel_sent, yielded, init_ran, watch_called>>
    /\ UNCHANGED beyondWatch

\* ready_event._notify_waiters(): the flag is set and the waiters are
\* woken; init returns and its guard is dropped
InitNotifyReady(p) ==
    /\ poll[p] = "init_ready"
    /\ ready_event' = "set"
    /\ es_lock' = None
    /\ poll' = [poll EXCEPT ![p] = "relock"]
    /\ UNCHANGED <<once, handles, event_stream, watcher, cursor, ret,
                   storeSide, cancel_sent, yielded, watchHist>>
    /\ UNCHANGED beyondWatch

\* the __anext__ future ends with result r: its guards are dropped
Deliver(p, r) ==
    /\ poll' = [poll EXCEPT ![p] = "done"]
    /\ ret' = [ret EXCEPT ![p] = r]
    /\ es_lock' = None
    /\ yielded' = IF r.kind = "event" THEN Append(yielded, r.ev) ELSE yielded

\* a `Some(result)` arm that never cancels the watcher
AfterSome_NoCancel(p, r) == Deliver(p, r)

\* the `Some(result)` arm of __anext__: with once the watcher is canceled
\* before the result is looked at
AfterSome(p, r) ==
    IF once
    THEN /\ poll' = [poll EXCEPT ![p] = "cancel"]
         /\ ret' = [ret EXCEPT ![p] = r]
         /\ es_lock' = p
         /\ UNCHANGED yielded
    ELSE Deliver(p, r)

\* a failed client.watch that signals ready_event all the same
InitWatchErr_Signals(p) ==
    /\ poll[p] = "init_watch"
    /\ Deliver(p, Res("error", 0))
    /\ ready_event' = IF ready_event = None THEN None ELSE "set"
    /\ UNCHANGED <<once, handles, event_stream, watcher, cursor, storeSide,
                   cancel_sent, watchHist>>
    /\ UNCHANGED beyondWatch

\* client.watch failed: `?` ends the future with the error
InitWatchErr(p) ==
    /\ poll[p] = "init_watch"
    /\ Deliver(p, Res("error", 0))
    /\ UNCHANGED <<watchFields, cursor, storeSide, cancel_sent, watchHist>>
    /\ UNCHANGED beyondWatch

\* next(): `if self.once && *index > 0 { return None }`
NextOnceSpent(p) ==
    /\ poll[p] = "relock"
    /\ es_lock = None
    /\ once /\ index > 0
    /\ Deliver(p, Res("stop", 0))
    /\ UNCHANGED <<watchFields, cursor, storeSide, cancel_sent, watchHist>>
    /\ UNCHANGED beyondWatch

\* a buffered read that forgets to advance the cursor
NextBuffered_NoAdvance(p) ==
    /\ poll[p] = "relock"
    /\ es_lock = None
    /\ ~(once /\ index > 0)
    /\ index < Len(events)
    /\ AfterSome(p, Res("event", events[index + 1]))
    /\ UNCHANGED <<watchFields, cursor, storeSide, cancel_sent, watchHist>>
    /\ UNCHANGED beyondWatch

\* next(): an event is left in the buffer
NextBuffered(p) ==
    /\ poll[p] = "relock"
    /\ es_lock = None
    /\ ~(once /\ index > 0)
    /\ index < Len(events)
    /\ index' = index + 1
    /\ AfterSome(p, Res("event", events[index + 1]))
    /\ UNCHANGED <<watchFields, events, storeSide, cancel_sent, watchHist>>
    /\ UNCHANGED beyondWatch

\* next(): the buffer is used up, the stream is awaited under the lock
NextAwaitStream(p) ==
    /\ poll[p] = "relock"
    /\ es_lock = None
    /\ ~(once /\ index > 0)
    /\ index >= Len(events)
    /\ es_lock' = p
    /\ poll' = [poll EXCEPT ![p] = "recv"]
    /\ UNCHANGED <<watchFields, cursor, ret, storeSide, cancel_sent, yielded,
                   watchHist>>
    /\ UNCHANGED beyondWatch

\* next(): Some(Ok(response)): its events are pushed; then events[*index]
\* is returned if the buffer is not empty (a panic when *index is past
\* its end), None if it is empty
NextRecvBatch(p) ==
    /\ poll[p] = "recv"
    /\ inflight # <<>>
    /\ Head(inflight).kind = "batch"
    /\ inflight' = Tail(inflight)
    /\ events' = events \o Head(inflight).evs
    /\ IF events' = <<>>
       THEN Deliver(p, Res("stop", 0)) /\ UNCHANGED index
       ELSE IF index < Len(events')
       THEN /\ index' = index + 1
            /\ AfterSome(p, Res("event", events'[index + 1]))
       ELSE Deliver(p, Res("panic", 0)) /\ UNCHANGED index
    /\ UNCHANGED <<watchFields, server_watch, emitted, cancel_sent, watchHist>>
    /\ UNCHANGED beyondWatch

\* a next() that reports a stream error as the end of the stream
NextRecvErr_Stop(p) ==
    /\ poll[p] = "recv"
    /\ inflight # <<>>
    /\ Head(inflight).kind = "err"
    /\ inflight' = Tail(inflight)
    /\ Deliver(p, Res("stop", 0))
    /\ UNCHANGED <<watchFields, cursor, server_watch, emitted, cancel_sent,
                   watchHist>>
    /\ UNCHANGED beyondWatch

\* next(): Some(Err(error))
NextRecvErr(p) ==
    /\ poll[p] = "recv"
    /\ inflight # <<>>
    /\ Head(inflight).kind = "err"
    /\ inflight' = Tail(inflight)
    /\ AfterSome(p, Res("error", 0))
    /\ UNCHANGED <<watchFields, cursor, server_watch, emitted, cancel_sent,
                   watchHist>>
    /\ UNCHANGED beyondWatch

\* next(): the stream has ended: None
NextRecvEnd(p) ==
    /\ poll[p] = "recv"
    /\ inflight = <<>>
    /\ server_watch \in {"canceled", "broken"}
    /\ Deliver(p, Res("stop", 0))
    /\ UNCHANGED <<watchFields, cursor, storeSide, cancel_sent, watchHist>>
    /\ UNCHANGED beyondWatch

\* once: watcher.cancel() returned Ok; `result?` then ends the future
CancelOk(p) ==
    /\ poll[p] = "cancel"
    /\ cancel_sent' = TRUE
    /\ Deliver(p, ret[p])
    /\ UNCHANGED <<watchFields, cursor, storeSide, watchHist>>
    /\ UNCHANGED beyondWatch

\* once: watcher.cancel() returned Err: unwrap() panics
CancelErr(p) ==
    /\ poll[p] = "cancel"
    /\ Deliver(p, Res("panic", 0))
    /\ UNCHANGED <<watchFields, cursor, storeSide, cancel_sent, watchHist>>
    /\ UNCHANGED beyondWatch

\* the host takes the result of a finished __anext__ future
PollCollect(p) ==
    /\ poll[p] = "done"
    /\ poll' = [poll EXCEPT ![p] = "idle"]
    /\ ret' = [ret EXCEPT ![p] = NoRet]
    /\ UNCHANGED <<watchFields, es_lock, cursor, storeSide, cancel_sent,
                   yielded, watchHist>>
    /\ UNCHANGED beyondWatch

\* the store sends a response with k new events (k = 0: no events)
StoreEmit(k) ==
    /\ server_watch = "open"
    /\ emitted + k <= MaxEvents
    /\ Len(inflight) < MaxInflight
    /\ inflight' = Append(inflight, Batch([i \in 1..k |-> emitted + i]))
    /\ emitted' = emitted + k
    /\ UNCHANGED <<watchFields, es_lock, cursor, poll, ret, server_watch,
                   cancel_sent, yielded, watchHist>>
    /\ UNCHANGED beyondWatch

\* the stream fails: an error is the last item it carries
StoreBreak ==
    /\ server_watch = "open"
    /\ Len(inflight) < MaxInflight
    /\ inflight' = Append(inflight, StreamErr)
    /\ server_watch' = "broken"
    /\ UNCHANGED <<watchFields, es_lock, cursor, poll, ret, emitted,
                   cancel_sent, yielded, watchHist>>
    /\ UNCHANGED beyondWatch

\* the store processes the cancel request: it answers with a response
\* without events and ends the stream
StoreCancel ==
    /\ cancel_sent
    /\ server_watch = "open"
    /\ inflight' = Append(inflight, Batch(<<>>))
    /\ server_watch' = "canceled"
    /\ UNCHANGED <<watchFields, es_lock, cursor, poll, ret, emitted,
                   cancel_sent, yielded, watchHist>>
    /\ UNCHANGED beyondWatch

WatchNext ==
    \/ WatchNew
    \/ WatchAiter
    \/ \E p \in Pollers : AnextStart(p)
    \/ \E p \in Pollers : InitLocked(p)
    \/ \E p \in Pollers : InitWatchOk(p)
    \/ \E p \in Pollers : InitWatchErr(p)
    \/ \E p \in Pollers : InitNotifyReady(p)
    \/ \E p \in Pollers : NextOnceSpent(p)
    \/ \E p \in Pollers : NextBuffered(p)
    \/ \E p \in Pollers : NextAwaitStream(p)
    \/ \E p \in Pollers : NextRecvBatch(p)
    \/ \E p \in Pollers : NextRecvErr(p)
    \/ \E p \in Pollers : NextRecvEnd(p)
    \/ \E p \in Pollers : CancelOk(p)
    \/ \E p \in Pollers : CancelErr(p)
    \/ \E p \in Pollers : PollCollect(p)
    \/ \E k \in 0..MaxBatch : StoreEmit(k)
    \/ StoreBreak
    \/ StoreCancel

\* ================================================= shared client object
\* client.rs: one PyClient with lock options that is entered by several
\* `async with` blocks whose lifetimes overlap.  Every __aenter__ builds a
\* new EtcdLockManager and stores it in the object's one lock_manager
\* field; the manager built by entry e is called e.  The managers ask the
\* store for the same lock name, without a lease.
Entries == {"a", "b", "c"}

SharedInit ==
    /\ lock_manager = None
    /\ entry = [e \in Entries |-> "new"]
    /\ exit_manager = [e \in Entries |-> None]
    /\ mgr_lock_id = [e \in Entries |-> None]
    /\ mgr_timeout \in BOOLEAN
    /\ lock_holder = None
    /\ lock_queue = {}
    /\ unlocks = [e \in Entries |-> 0]

\* the tokio mutex around manager m is held: handle_aenter runs under it
\* from the lock request to its return
MgrBusy(m) == entry[m] = "acquiring"

\* __aenter__: self.lock_manager is overwritten with a new manager, whose
\* handle_aenter sends the lock request
SharedAenter(e) ==
    /\ entry[e] = "new"
    /\ lock_manager' = e
    /\ lock_queue' = lock_queue \cup {e}
    /\ entry' = [entry EXCEPT ![e] = "acquiring"]
    /\ UNCHANGED <<exit_manager, mgr_lock_id, mgr_timeout, lock_holder,
                   unlocks>>
    /\ UNCHANGED beyondShared

\* the store grants the free lock to a waiting request
SharedStoreGrant(m) ==
    /\ m \in lock_queue
    /\ lock_holder = None
    /\ lock_holder' = m
    /\ lock_queue' = lock_queue \ {m}
    /\ UNCHANGED <<lock_manager, entry, exit_manager, mgr_lock_id,
                   mgr_timeout, unlocks>>
    /\ UNCHANGED beyondShared

\* try_lock returns: lock_id is set, __aenter__ returns the communicator
SharedAcquireOk(e) ==
    /\ entry[e] = "acquiring"
    /\ lock_holder = e
    /\ mgr_lock_id' = [mgr_lock_id EXCEPT ![e] = e]
    /\ entry' = [entry EXCEPT ![e] = "open"]
    /\ UNCHANGED <<lock_manager, exit_manager, mgr_timeout, lock_holder,
                   lock_queue, unlocks>>
    /\ UNCHANGED beyondShared

\* the deadline elapses with the request still waiting: __aenter__ raises
SharedAcquireTimeout(e) ==
    /\ mgr_timeout
    /\ entry[e] = "acquiring"
    /\ e \in lock_queue
    /\ lock_queue' = lock_queue \ {e}
    /\ entry' = [entry EXCEPT ![e] = "failed"]
    /\ UNCHANGED <<lock_manager, exit_manager, mgr_lock_id, mgr_timeout,
                   lock_holder, unlocks>>
    /\ UNCHANGED beyondShared

\* __aexit__: the manager is taken from self.lock_manager as it is now
SharedAexit(e) ==
    /\ entry[e] = "open"
    /\ exit_manager' = [exit_manager EXCEPT ![e] = lock_manager]
    /\ entry' = [entry EXCEPT ![e] = "exiting"]
    /\ UNCHANGED <<lock_manager, mgr_lock_id, mgr_timeout, lock_holder,
                   lock_queue, unlocks>>
    /\ UNCHANGED beyondShared

\* handle_aexit under the manager's mutex, lock_id = Some: unlock(lock_id)
\* frees the key on the store, lock_id is cleared
SharedAexitUnlock(e) ==
    /\ entry[e] = "exiting"
    /\ ~MgrBusy(exit_manager[e])
    /\ mgr_lock_id[exit_manager[e]] # None
    /\ lock_holder' = IF lock_holder = mgr_lock_id[exit_manager[e]]
                      THEN None ELSE lock_holder
    /\ unlocks' = [unlocks EXCEPT ![mgr_lock_id[exit_manager[e]]] = @ + 1]
    /\ mgr_lock_id' = [mgr_lock_id EXCEPT ![exit_manager[e]] = None]
    /\ entry' = [entry EXCEPT ![e] = "closed"]
    /\ UNCHANGED <<lock_manager, exit_manager, mgr_timeout, lock_queue>>
    /\ UNCHANGED beyondShared

\* handle_aexit under the manager's mutex, lock_id = None: the
\* release-before-acquire LockError is raised
SharedAexitNotAcquired(e) ==
    /\ entry[e] = "exiting"
    /\ ~MgrBusy(exit_manager[e])
    /\ mgr_lock_id[exit_manager[e]] = None
    /\ entry' = [entry EXCEPT ![e] = "failed"]
    /\ UNCHANGED <<lock_manager, exit_manager, mgr_lock_id, mgr_timeout,
                   lock_holder, lock_queue, unlocks>>
    /\ UNCHANGED beyondShared

SharedNext ==
    \/ \E e \in Entries : SharedAenter(e)
    \/ \E m \in Entries : SharedStoreGrant(m)
    \/ \E e \in Entries : SharedAcquireOk(e)
    \/ \E e \in Entries : SharedAcquireTimeout(e)
    \/ \E e \in Entries : SharedAexit(e)
    \/ \E e \in Entries : SharedAexitUnlock(e)
    \/ \E e \in Entries : SharedAexitNotAcquired(e)

\* ======================================================= mutex order
\* watch.rs, watch_event_stream.rs, communicator.rs, condvar.rs: the tokio
\* mutexes a watch session and a communicator on the same client handle
\* take, one step per lock().await and per guard dropped.  A task that
\* waits for a mutex stays where it is until the mutex is free.
Mutexes == {"event_stream", "client", "watcher", "condition"}

\* __anext__ futures on clones of one PyWatch, a Communicator operation on
\* the same Arc<Mutex<EtcdClient>>, and a host call on the ready CondVar
AnextTasks == {"x1", "x2"}
CommTasks == {"k1"}
CondTasks == {"v1"}
MutexTasks == AnextTasks \cup CommTasks \cup CondTasks

MutexInit ==
    /\ holder = [m \in Mutexes |-> None]
    /\ at = [t \in MutexTasks |-> "idle"]
    /\ stream_set = FALSE
    /\ with_once \in BOOLEAN
    /\ with_ready \in BOOLEAN

\* the mutex whose lock().await a task at position pos is in, or None
Wants(pos) ==
    CASE pos \in {"init", "relock"} -> "event_stream"
      [] pos \in {"init_client", "op"} -> "client"
      [] pos \in {"init_watcher", "cancel"} -> "watcher"
      [] pos \in {"init_ready", "flag"} -> "condition"
      [] OTHER -> None

\* lock().await returns to t: the mutex was free and t holds it now
Take(t, m) ==
    /\ holder[m] = None
    /\ holder' = [holder EXCEPT ![m] = t]

\* the guards of the mutexes in ms are dropped
Drop(ms) ==
    holder' = [m \in Mutexes |-> IF m \in ms THEN None ELSE holder[m]]

\* an init() that locks the client handle before the event stream
MxAnext_ClientFirst(t) ==
    /\ at[t] = "idle"
    /\ Take(t, "client")
    /\ at' = [at EXCEPT ![t] = "init"]
    /\ UNCHANGED <<stream_set, with_once, with_ready>>
    /\ UNCHANGED beyondMutex

\* __anext__ is called: the future starts with watch.init()
MxAnext(t) ==
    /\ at[t] = "idle"
    /\ at' = [at EXCEPT ![t] = "init"]
    /\ UNCHANGED <<holder, stream_set, with_once, with_ready>>
    /\ UNCHANGED beyondMutex

\* init(): event_stream.lock().await; with a stream it returns at once and
\* the guard is dropped, without one the guard is kept
MxInitLock(t) ==
    /\ at[t] = "init"
    /\ holder["event_stream"] = None
    /\ IF stream_set
       THEN /\ at' = [at EXCEPT ![t] = "relock"]
            /\ UNCHANGED holder
       ELSE /\ at' = [at EXCEPT ![t] = "init_client"]
            /\ holder' = [holder EXCEPT !["event_stream"] = t]
    /\ UNCHANGED <<stream_set, with_once, with_ready>>
    /\ UNCHANGED beyondMutex

\* init(): self.client.lock().await, the event_stream guard held
MxInitClient(t) ==
    /\ at[t] = "init_client"
    /\ Take(t, "client")
    /\ at' = [at EXCEPT ![t] = "watching"]
    /\ UNCHANGED <<stream_set, with_once, with_ready>>
    /\ UNCHANGED beyondMutex

\* client.watch returned Ok: *event_stream = Some(..)
MxWatchOk(t) ==
    /\ at[t] = "watching"
    /\ stream_set' = TRUE
    /\ UNCHANGED holder
    /\ at' = [at EXCEPT ![t] = "init_watcher"]
    /\ UNCHANGED <<holder, with_once, with_ready>>
    /\ UNCHANGED beyondMutex

\* client.watch returned Err: init returns it, its guards are dropped
MxWatchErr(t) ==
    /\ at[t] = "watching"
    /\ Drop({"event_stream", "client"})
    /\ at' = [at EXCEPT ![t] = "idle"]
    /\ UNCHANGED <<stream_set, with_once, with_ready>>
    /\ UNCHANGED beyondMutex

\* init(): self.watcher.lock().await
MxStoreWatcher(t) ==
    /\ at[t] = "init_watcher"
    /\ Take(t, "watcher")
    /\ at' = [at EXCEPT ![t] = "watcher_held"]
    /\ UNCHANGED <<stream_set, with_once, with_ready>>
    /\ UNCHANGED beyondMutex

\* the watcher is stored and its guard dropped; without a ready_event init
\* returns and drops its guards
MxWatcherStored(t) ==
    /\ at[t] = "watcher_held"
    /\ IF with_ready
       THEN /\ Drop({"watcher"})
            /\ at' = [at EXCEPT ![t] = "init_ready"]
       ELSE /\ Drop({"watcher", "client", "event_stream"})
            /\ at' = [at EXCEPT ![t] = "relock"]
    /\ UNCHANGED <<stream_set, with_once, with_ready>>
    /\ UNCHANGED beyondMutex

\* ready_event._notify_waiters(): condition.lock().await
MxReadyLock(t) ==
    /\ at[t] = "init_ready"
    /\ Take(t, "condition")
    /\ at' = [at EXCEPT ![t] = "ready_held"]
    /\ UNCHANGED <<stream_set, with_once, with_ready>>
    /\ UNCHANGED beyondMutex

\* the flag is set, its guard dropped; init returns and drops its guards
MxReadyDone(t) ==
    /\ at[t] = "ready_held"
    /\ Drop({"condition", "client", "event_stream"})
    /\ at' = [at EXCEPT ![t] = "relock"]
    /\ UNCHANGED <<stream_set, with_once, with_ready>>
    /\ UNCHANGED beyondMutex

\* __anext__: watch.event_stream.lock().await, then next() awaits the
\* stream under the guard
MxRelock(t) ==
    /\ at[t] = "relock"
    /\ Take(t, "event_stream")
    /\ at' = [at EXCEPT ![t] = "recv"]
    /\ UNCHANGED <<stream_set, with_once, with_ready>>
    /\ UNCHANGED beyondMutex

\* next() returned None: StopAsyncIteration, the guard is dropped
MxNextNone(t) ==
    /\ at[t] = "recv"
    /\ Drop({"event_stream"})
    /\ at' = [at EXCEPT ![t] = "idle"]
    /\ UNCHANGED <<stream_set, with_once, with_ready>>
    /\ UNCHANGED beyondMutex

\* next() returned Some(result): with once the watcher is to be canceled,
\* the event_stream guard held; without once the future ends
MxNextSome(t) ==
    /\ at[t] = "recv"
    /\ IF with_once
       THEN /\ at' = [at EXCEPT ![t] = "cancel"]
            /\ UNCHANGED holder
       ELSE /\ at' = [at EXCEPT ![t] = "idle"]
            /\ Drop({"event_stream"})
    /\ UNCHANGED <<stream_set, with_once, with_ready>>
    /\ UNCHANGED beyondMutex

\* once: watcher.lock().await
MxCancelLock(t) ==
    /\ at[t] = "cancel"
    /\ Take(t, "watcher")
    /\ at' = [at EXCEPT ![t] = "canceling"]
    /\ UNCHANGED <<stream_set, with_once, with_ready>>
    /\ UNCHANGED beyondMutex

\* once: cancel() returned; the future ends and drops its guards
MxCancelDone(t) ==
    /\ at[t] = "canceling"
    /\ Drop({"watcher", "event_stream"})
    /\ at' = [at EXCEPT ![t] = "idle"]
    /\ UNCHANGED <<stream_set, with_once, with_ready>>
    /\ UNCHANGED beyondMutex

\* a Communicator operation is called
MxOpStart(t) ==
    /\ at[t] = "idle"
    /\ at' = [at EXCEPT ![t] = "op"]
    /\ UNCHANGED <<holder, stream_set, with_once, with_ready>>
    /\ UNCHANGED beyondMutex

\* the operation: client.lock().await
MxOpLock(t) ==
    /\ at[t] = "op"
    /\ Take(t, "client")
    /\ at' = [at EXCEPT ![t] = "calling"]
    /\ UNCHANGED <<stream_set, with_once, with_ready>>
    /\ UNCHANGED beyondMutex

\* the store call returned: the guard is dropped
MxOpDone(t) ==
    /\ at[t] = "calling"
    /\ Drop({"client"})
    /\ at' = [at EXCEPT ![t] = "idle"]
    /\ UNCHANGED <<stream_set, with_once, with_ready>>
    /\ UNCHANGED beyondMutex

\* the host calls wait() or notify_waiters() on the CondVar
MxCondStart(t) ==
    /\ at[t] = "idle"
    /\ at' = [at EXCEPT ![t] = "flag"]
    /\ UNCHANGED <<holder, stream_set, with_once, with_ready>>
    /\ UNCHANGED beyondMutex

\* condition.lock().await
MxCondLock(t) ==
    /\ at[t] = "flag"
    /\ Take(t, "condition")
    /\ at' = [at EXCEPT ![t] = "flagging"]
    /\ UNCHANGED <<stream_set, with_once, with_ready>>
    /\ UNCHANGED beyondMutex

\* the flag is read or written and the guard dropped
MxCondDone(t) ==
    /\ at[t] = "flagging"
    /\ Drop({"condition"})
    /\ at' = [at EXCEPT ![t] = "idle"]
    /\ UNCHANGED <<stream_set, with_once, with_ready>>
    /\ UNCHANGED beyondMutex

MutexNext ==
    \/ \E t \in AnextTasks : MxAnext(t)
    \/ \E t \in AnextTasks : MxInitLock(t)
    \/ \E t \in AnextTasks : MxInitClient(t)
    \/ \E t \in AnextTasks : MxWatchOk(t)
    \/ \E t \in AnextTasks : MxWatchErr(t)
    \/ \E t \in AnextTasks : MxStoreWatcher(t)
    \/ \E t \in AnextTasks : MxWatcherStored(t)
    \/ \E t \in AnextTasks : MxReadyLock(t)
    \/ \E t \in AnextTasks : MxReadyDone(t)
    \/ \E t \in AnextTasks : MxRelock(t)
    \/ \E t \in AnextTasks : MxNextNone(t)
    \/ \E t \in AnextTasks : MxNextSome(t)
    \/ \E t \in AnextTasks : MxCancelLock(t)
    \/ \E t \in AnextTasks : MxCancelDone(t)
    \/ \E t \in CommTasks : MxOpStart(t)
    \/ \E t \in CommTasks : MxOpLock(t)
    \/ \E t \in CommTasks : MxOpDone(t)
    \/ \E t \in CondTasks : MxCondStart(t)
    \/ \E t \in CondTasks : MxCondLock(t)
    \/ \E t \in CondTasks : MxCondDone(t)

\* ========================================================== replace
\* communicator.rs: replace() against the store, with the other writers of
\* the key: a put through the same handle and a client on another handle
Values == {"u", "v", "w"}

ReplaceInit ==
    /\ kv \in Values \cup {None}
    /\ handle = None
    /\ replace_at = "idle"
    /\ initial_val = "u"
    /\ new_val = "u"
    /\ response = None
    /\ replace_ret = None
    /\ put_at = "idle"

\* replace(key, initial_val, new_val) is called
ReplaceCall(i, n) ==
    /\ replace_at = "idle"
    /\ replace_at' = "lock"
    /\ initial_val' = i
    /\ new_val' = n
    /\ response' = None
    /\ replace_ret' = None
    /\ UNCHANGED <<kv, handle, put_at>>
    /\ UNCHANGED beyondReplace

\* client.lock().await
ReplaceLock ==
    /\ replace_at = "lock"
    /\ handle = None
    /\ handle' = "replace"
    /\ replace_at' = "get"
    /\ UNCHANGED <<kv, initial_val, new_val, response, replace_ret, put_at>>
    /\ UNCHANGED beyondReplace

\* client.get(key) returned Ok: the store answers with the key's value
ReplaceGet ==
    /\ replace_at = "get"
    /\ response' = kv
    /\ replace_at' = "got"
    /\ UNCHANGED <<kv, handle, initial_val, new_val, replace_ret, put_at>>
    /\ UNCHANGED beyondReplace

\* client.get(key) returned Err
ReplaceGetErr ==
    /\ replace_at = "get"
    /\ replace_ret' = "error"
    /\ handle' = None
    /\ replace_at' = "idle"
    /\ UNCHANGED <<kv, initial_val, new_val, response, put_at>>
    /\ UNCHANGED beyondReplace

\* the key is absent or its value differs from initial_val: Ok(false)
ReplaceMismatch ==
    /\ replace_at = "got"
    /\ response # initial_val
    /\ replace_ret' = "false"
    /\ handle' = None
    /\ replace_at' = "idle"
    /\ UNCHANGED <<kv, initial_val, new_val, response, put_at>>
    /\ UNCHANGED beyondReplace

\* the value read equals initial_val: client.put(key, new_val) returned Ok,
\* Ok(true)
ReplacePut ==
    /\ replace_at = "got"
    /\ response = initial_val
    /\ kv' = new_val
    /\ replace_ret' = "true"
    /\ handle' = None
    /\ replace_at' = "idle"
    /\ UNCHANGED <<initial_val, new_val, response, put_at>>
    /\ UNCHANGED beyondReplace

\* the value read equals initial_val: client.put returned Err
ReplacePutErr ==
    /\ replace_at = "got"
    /\ response = initial_val
    /\ replace_ret' = "error"
    /\ handle' = None
    /\ replace_at' = "idle"
    /\ UNCHANGED <<kv, initial_val, new_val, response, put_at>>
    /\ UNCHANGED beyondReplace

\* put() through the same handle: client.lock().await
SamePutLock ==
    /\ put_at = "idle"
    /\ handle = None
    /\ handle' = "put"
    /\ put_at' = "put"
    /\ UNCHANGED <<kv, replace_at, initial_val, new_val, response, replace_ret>>
    /\ UNCHANGED beyondReplace

\* put() through the same handle: client.put returned, the guard is dropped
SamePut(v) ==
    /\ put_at = "put"
    /\ kv' = v
    /\ handle' = None
    /\ put_at' = "idle"
    /\ UNCHANGED <<replace_at, initial_val, new_val, response, replace_ret>>
    /\ UNCHANGED beyondReplace

\* a client on another handle puts the key
OtherPut(v) ==
    /\ kv # v
    /\ kv' = v
    /\ UNCHANGED <<handle, replace_at, initial_val, new_val, response, replace_ret, put_at>>
    /\ UNCHANGED beyondReplace

\* a client on another handle deletes the key
OtherDelete ==
    /\ kv # None
    /\ kv' = None
    /\ UNCHANGED <<handle, replace_at, initial_val, new_val, response, replace_ret, put_at>>
    /\ UNCHANGED beyondReplace

ReplaceNext ==
    \/ \E i \in Values, n \in Values : ReplaceCall(i, n)
    \/ ReplaceLock
    \/ ReplaceGet
    \/ ReplaceGetErr
    \/ ReplaceMismatch
    \/ ReplacePut
    \/ ReplacePutErr
    \/ SamePutLock
    \/ \E v \in Values : SamePut(v)
    \/ \E v \in Values : OtherPut(v)
    \/ OtherDelete

\* ======================================================== specifications
\* Each specification runs one component; the others stay as constructed.
LockIdle ==
    /\ LockInit
    /\ ttl = [m \in Mgrs |-> None]
    /\ timeout_seconds = [m \in Mgrs |-> None]

CtxIdle ==
    /\ CtxInit
    /\ lock_options = [s \in Sessions |-> None]

WatchIdle ==
    /\ WatchInit
    /\ once = FALSE
    /\ ready_event = None

SharedIdle ==
    /\ SharedInit
    /\ mgr_timeout = FALSE

MutexIdle ==
    /\ MutexInit
    /\ with_once = FALSE
    /\ with_ready = FALSE

ReplaceIdle ==
    /\ kv = None
    /\ handle = None
    /\ replace_at = "idle"
    /\ initial_val = "u"
    /\ new_val = "u"
    /\ response = None
    /\ replace_ret = None
    /\ put_at = "idle"

vars == <<lockVars, ctxVars, rtVars, cvVars, watchVars, sharedVars, mutexVars, replaceVars>>

LockSpecInit == LockInit /\ CtxIdle /\ RtInit /\ CvInit /\ WatchIdle /\ SharedIdle /\ MutexIdle /\ ReplaceIdle
LockSpec == LockSpecInit /\ [][LockNext]_vars

CtxSpecInit == CtxInit /\ LockIdle /\ RtInit /\ CvInit /\ WatchIdle /\ SharedIdle /\ MutexIdle /\ ReplaceIdle
CtxSpec == CtxSpecInit /\ [][CtxNext]_vars

RtSpecInit == RtInit /\ LockIdle /\ CtxIdle /\ CvInit /\ WatchIdle /\ SharedIdle /\ MutexIdle /\ ReplaceIdle
RtSpec == RtSpecInit /\ [][RtNext]_vars

\* _cleanup_runtime runs on a thread of its own that keeps running: each
\* turn of its loop and its notify are taken once they can be
RtFairSpec ==
    /\ RtSpec
    /\ WF_vars(CleanupPoll)
    /\ WF_vars(CleanupNotify)

\* the management thread is an OS thread that does nothing but start and
\* await the notifier, and needs no host lock: it runs once it can; the
\* notify of _cleanup_runtime is taken once it is reached
RtThreadFairSpec ==
    /\ RtSpec
    /\ WF_vars(CleanupNotify)
    /\ WF_vars(MgmtAwait)
    /\ WF_vars(MgmtExit)

CvSpecInit == CvInit /\ LockIdle /\ CtxIdle /\ RtInit /\ WatchIdle /\ SharedIdle /\ MutexIdle /\ ReplaceIdle
CvSpec == CvSpecInit /\ [][CvNext]_vars

\* the executor runs every spawned task that can take a step; whether
\* wait() or a notify is called at all is up to the host
CvFairSpec ==
    /\ CvSpec
    /\ \A w \in Waiters : WF_vars(WaitCheck(w)) /\ WF_vars(WaitRegister(w))
    /\ \A n \in Notifiers : WF_vars(NotifySet(n)) /\ WF_vars(NotifyWake(n))

WatchSpecInit == WatchInit /\ LockIdle /\ CtxIdle /\ RtInit /\ CvInit /\ SharedIdle /\ MutexIdle /\ ReplaceIdle
WatchSpec == WatchSpecInit /\ [][WatchNext]_vars

SharedSpecInit == SharedInit /\ LockIdle /\ CtxIdle /\ RtInit /\ CvInit /\ WatchIdle /\ MutexIdle /\ ReplaceIdle
SharedSpec == SharedSpecInit /\ [][SharedNext]_vars

MutexSpecInit == MutexInit /\ LockIdle /\ CtxIdle /\ RtInit /\ CvInit /\ WatchIdle /\ SharedIdle /\ ReplaceIdle
MutexSpec == MutexSpecInit /\ [][MutexNext]_vars

ReplaceSpecInit == ReplaceInit /\ LockIdle /\ CtxIdle /\ RtInit /\ CvInit /\ WatchIdle /\ SharedIdle /\ MutexIdle
ReplaceSpec == ReplaceSpecInit /\ [][ReplaceNext]_vars

\* =================================================================== claims
AexitPcs == {"aexit_connect", "aexit_revoke", "aexit_unlock"}

\* handle_aenter on m returned the timeout LockError
TimedOutReturn(m) ==
    pc[m] = "idle" /\ result[m] = Ret("aenter", "LockError", "timeout")

\* the store holds the lock, or a lock request that can still be granted,
\* for m
StoreLockOf(m) ==
    storeOwner = m \/ m \in storeWaiting \/ lockResp[m] = "granted"

\* C1: for a manager with ttl = Some(t), while the lock is held (acquire
\* returned success, release not called) and no heartbeat call has failed,
\* the keepalive task keeps the lease alive: the lease has not expired.
C1_LeaseKeptAlive ==
    \A m \in Mgrs :
        (phase[m] = "Held" /\ ttl[m] # None /\ lease_keepalive_task[m] # "failed")
            => LeaseLive(m)

\* C2: mutual exclusion: no two managers are at the same time between a
\* successful acquire and their release of the lock name.
C2_MutualExclusion ==
    \A m \in Mgrs : \A n \in Mgrs \ {m} :
        ~(phase[m] = "Held" /\ phase[n] = "Held")

\* C3: when acquire returns the lock-timeout error, the store holds no lease
\* of this attempt and no lock or grantable lock request of it, and the
\* keepalive task is not running.
C3_TimeoutLeaksNothing ==
    \A m \in Mgrs :
        TimedOutReturn(m) =>
            /\ ~LeaseLive(m)
            /\ ~StoreLockOf(m)
            /\ lease_keepalive_task[m] # "running"

\* C4: when acquire returns an error on a path after the lease was granted
\* (lock call error, timeout, revoke failure), the store holds no lease
\* created by the attempt and no lock owned by it.
C4_FailedAcquireLeavesNothing ==
    \A m \in Mgrs :
        (/\ pc[m] = "idle"
         /\ result[m].op = "aenter"
         /\ lease_id[m] # None
         /\ result[m].path \in {"lock_call", "timeout", "revoke"})
            => (~LeaseLive(m) /\ storeOwner # m)

\* C5: a release on a manager whose acquire never succeeded returns the
\* precondition LockError, makes no backing-store call (connect included)
\* and leaves lock_id, lease_id and the keepalive handle unchanged.
C5_ReleaseWithoutAcquire ==
    [][\A m \in Mgrs :
          (/\ pc[m] \in AexitPcs
           /\ pc'[m] = "idle"
           /\ phase[m] \in {"Idle", "Failed", "TimedOut"})
             => /\ result'[m] = Ret("aexit", "LockError", "precondition")
                /\ calls'[m] = {}
                /\ lock_id'[m] = lock_id[m]
                /\ lease_id'[m] = lease_id[m]
                /\ lease_keepalive_task'[m] = lease_keepalive_task[m]]_lockVars

\* C6: a release that returns success leaves lock_id and lease_id None, and a
\* release on a manager already released returns the precondition LockError
\* and makes no backing-store call.
C6_DoubleRelease ==
    [][\A m \in Mgrs :
          (pc[m] \in AexitPcs /\ pc'[m] = "idle")
             => /\ result'[m].exc = "Ok"
                      => (lock_id'[m] = None /\ lease_id'[m] = None)
                /\ phase[m] = "Released"
                      => /\ result'[m] = Ret("aexit", "LockError", "precondition")
                         /\ calls'[m] = {}]_lockVars

\* C7: once a release called on a held manager has returned, with success or
\* with any failure, lock_id and lease_id are None.
C7_ReleaseAlwaysClears ==
    \A m \in Mgrs :
        (pc[m] = "idle" /\ phase[m] \in {"Released", "ReleaseFailed"})
            => (lock_id[m] = None /\ lease_id[m] = None)

\* C8: between the operations of a manager, lock_id is Some if and only if
\* the store holds the named lock for this manager.
C8_LockIdIffHeld ==
    \A m \in Mgrs :
        pc[m] = "idle" => ((lock_id[m] # None) <=> (storeOwner = m))

\* C9: after a release that returned success the store no longer holds the
\* lock for the releasing manager, so another manager's request can be
\* granted without waiting for a lease to expire.
C9_ReleasedIsFree ==
    \A m \in Mgrs :
        (pc[m] = "idle" /\ phase[m] = "Released") => storeOwner # m

C12_TriggerOnlyAtZero ==
    [][\A s \in Sessions :
          (session[s] = "wrapper" /\ session'[s] = "join")
              => active_contexts = 0]_vars

\* ---------------------------------------------------------------------
\* C13: the shutdown signal is sent only when no bridged task is between
\* finishing its future and having delivered its result to the host: every
\* step in which _cleanup_runtime calls notify_one starts with no task in
\* that window.
C13_NoSignalWhileReturning ==
    [][(cleanup = "notify" /\ cleanup' = "idle")
          => \A t \in Tasks : ~Returning(t)]_vars

\* ---------------------------------------------------------------------
\* C14: _cleanup_runtime never panics, every call that returns leaves the
\* bridge uninitialized, shutting-down or terminated, and a call made in
\* one of these states (no runtime, or shutdown already signalled by an
\* earlier call) leaves the lifecycle state as it was.
C14_CleanupIdempotent ==
    [][/\ ~panicked'
       /\ cleanups' # cleanups =>
            /\ Lifecycle' # "initialized"
            /\ Lifecycle # "initialized" => Lifecycle' = Lifecycle]_vars

\* a second call has returned after the management thread ended, while a
\* task is still active
C14_Witness ==
    /\ cleanups = 2
    /\ thread = "exited"
    /\ permit
    /\ ACTIVE_TASKS > 0
    /\ ~panicked

\* ---------------------------------------------------------------------
\* C15: every _cleanup_runtime call that starts waiting returns, with the
\* shutdown signalled and without a panic, whether or not the bridged
\* tasks complete.
C15_CleanupTerminates ==
    (cleanup = "waiting") ~> (cleanup = "idle" /\ Signaled /\ ~panicked)

\* the grace period has run out with a task still running, and
\* _cleanup_runtime goes on to signal
C15_Witness ==
    /\ cleanup = "notify"
    /\ elapsed = GracePolls
    /\ ACTIVE_TASKS > 0
    /\ \E t \in Tasks : task_state[t] = "running"

\* ---------------------------------------------------------------------
\* C16: once the condition is set, every wait() that has been called
\* completes, whether it started before, after or during the notification.
C16_EveryWaitCompletes ==
    \A w \in Waiters :
        (condition /\ waiter[w] # "idle") ~> (waiter[w] = "done")

\* ---------------------------------------------------------------------
\* C17: the condition flag starts false, and once it is true no step sets
\* it back to false.
C17_FlagMonotone ==
    /\ ~condition
    /\ [][condition => condition']_vars

\* a second notify has written the flag after the first one set it
C17_Witness ==
    /\ condition
    /\ \E n \in Notifiers : notifier[n] = "done"
    /\ \E n \in Notifiers : notifier[n] = "notify"

\* ---------------------------------------------------------------------
\* C18: constructing a watch (watch / watch_prefix / __aiter__) issues no
\* watch call: a watch call has been made, or a server-side watch exists,
\* only if some __anext__ has entered init().
C18_ConstructionInert ==
    (watch_called \/ watches_made > 0 \/ server_watch # "none") => init_ran

\* the watch was built and cloned and __anext__ was called, init() has not
\* run yet
C18_Witness ==
    /\ handles >= 2
    /\ \E p \in Pollers : poll[p] = "init"
    /\ ~init_ran
    /\ server_watch = "none"

\* ---------------------------------------------------------------------
\* C19: however many __anext__ futures of one session run init(), one after
\* the other or at once, at most one server-side watch is established and
\* at most one event stream is created, and client.watch is in flight
\* only while no stream exists and only under the event_stream lock.
C19_InitOnce ==
    /\ watches_made <= 1
    /\ streams_made <= 1
    /\ \A p \in Pollers :
          poll[p] = "init_watch" => (event_stream = None /\ es_lock = p)

\* two __anext__ futures have both passed init(); one watch was established
C19_Witness ==
    /\ handles >= 2
    /\ \A p \in Pollers : poll[p] = "relock"
    /\ watches_made = 1
    /\ streams_made = 1

\* ---------------------------------------------------------------------
\* a poll ends in this step, after the first event was yielded
EndsAfterFirst(p) ==
    /\ yielded # <<>>
    /\ poll[p] # "done"
    /\ poll'[p] = "done"

RECURSIVE InFlightEvents(_)
InFlightEvents(q) ==
    IF q = <<>> THEN <<>> ELSE Head(q).evs \o InFlightEvents(Tail(q))

\* the events the store has sent: the k-th event sent is k
Emitted(n) == [i \in 1..n |-> i]

\* C21: without once, the events returned by the next() calls so far are,
\* in order, the first events the store has sent: the buffer holds the
\* batches received in the order of sending, the cursor stays inside it,
\* the returned events are exactly the buffer up to the cursor, and buffer
\* and responses in flight together are all events sent, so nothing is
\* skipped, duplicated, reordered or merged.
C21_EventsInEmissionOrder ==
    ~once =>
        /\ index <= Len(events)
        /\ yielded = SubSeq(events, 1, index)
        /\ events \o InFlightEvents(inflight) = Emitted(emitted)

\* all events of two batches have been returned, the second batch after the
\* first had been used up
C21_Witness ==
    /\ ~once
    /\ emitted = MaxEvents
    /\ yielded = Emitted(MaxEvents)
    /\ inflight = <<>>

\* ---------------------------------------------------------------------
\* poller p is awaiting the stream and the next item is a response
\* without events
RecvsEmptyBatch(p) ==
    /\ poll[p] = "recv"
    /\ inflight # <<>>
    /\ Head(inflight) = Batch(<<>>)

\* C22: without once, a next() that receives a response without events
\* neither reports end-of-stream nor fails: a poll that ends on such a
\* response ends with an event.
C22_EmptyBatchNotEnd ==
    [][\A p \in Pollers :
          (~once /\ RecvsEmptyBatch(p) /\ poll'[p] = "done")
              => ret'[p].kind = "event"]_vars

\* ---------------------------------------------------------------------
\* handle_aenter on m has returned
AcquireReturned(m) == pc[m] = "idle" /\ phase[m] # "Idle"

\* handle_aenter on m has got past a successful lease grant
PastLeaseGrant(m) ==
    \/ pc[m] \in {"aenter_lock", "aenter_revoke"}
    \/ phase[m] \in {"Held", "TimedOut"}
    \/ result[m] \in {Ret("aenter", PyErrOf(e), "lock_call") :
                          e \in LockCallErrors}

\* handle_aenter on m returned before or at the lease grant
FailedBeforeLock(m) ==
    result[m].op = "aenter" /\ result[m].path \in {"connect", "lease_grant"}

\* C24 as stated: once acquire has returned, whatever its outcome, the
\* keepalive task handle is Some if and only if ttl was requested.
C24_HandleIffTtl ==
    \A m \in Mgrs :
        AcquireReturned(m) =>
            (lease_keepalive_task[m] # None <=> ttl[m] # None)

\* C24: the keepalive task handle is Some only if ttl was requested; with
\* ttl it is Some once the lease grant has succeeded, whether the lock
\* attempt then succeeds, fails or times out, and None while acquire has
\* returned from a failed connect or a failed lease grant; it is set by
\* the successful lease grant only and is never cleared.
C24_HandleIffLeaseGranted ==
    /\ [](\A m \in Mgrs :
            /\ lease_keepalive_task[m] # None => ttl[m] # None
            /\ (ttl[m] # None /\ PastLeaseGrant(m))
                   => lease_keepalive_task[m] # None
            /\ FailedBeforeLock(m) => lease_keepalive_task[m] = None)
    /\ [][\A m \in Mgrs :
            /\ (lease_keepalive_task[m] = None
                    /\ lease_keepalive_task'[m] # None)
                   => (pc[m] = "aenter_grant" /\ pc'[m] = "aenter_lock")
            /\ lease_keepalive_task[m] # None
                   => lease_keepalive_task'[m] # None]_vars

\* with ttl, one acquire has timed out and one has failed at the lock call:
\* both managers keep the handle of their aborted task
C24_Witness ==
    \E m1, m2 \in Mgrs :
        /\ ttl[m1] # None /\ ttl[m2] # None
        /\ AcquireReturned(m1) /\ phase[m1] = "TimedOut"
        /\ AcquireReturned(m2) /\ phase[m2] = "Failed"
        /\ result[m2].path = "lock_call"
        /\ lease_keepalive_task[m1] = "aborted"
        /\ lease_keepalive_task[m2] = "aborted"

\* ---------------------------------------------------------------------
\* the step in which handle_aenter on m returns the error of the lock call
LockCallFails(m) ==
    /\ pc[m] = "aenter_lock"
    /\ lockResp[m] \in LockCallErrors
    /\ pc'[m] = "idle"
    /\ phase'[m] = "Failed"

\* C25: when the lock call fails (no timeout), acquire returns with the
\* keepalive task not running, with lock_id = None, and with the error
\* class that belongs to the store's error variant: different variants
\* give different classes, and LockError, the class of the timeout and of
\* the precondition error, is returned only for the store's own LockError.
C25_LockErrorUnchanged ==
    /\ [](\A e1, e2 \in ErrorVariants :
            PyErrOf(e1) = PyErrOf(e2) => e1 = e2)
    /\ [][\A m \in Mgrs :
            LockCallFails(m) =>
                /\ lease_keepalive_task'[m] # "running"
                /\ lock_id'[m] = None
                /\ result'[m].op = "aenter"
                /\ result'[m].exc = PyErrOf(lockResp[m])
                /\ (result'[m].exc = "LockError"
                       <=> lockResp[m] = "LockError")]_vars

\* with ttl, the lock call failed with a status: the task is aborted and
\* the status error is what acquire returned
C25_Witness ==
    \E m \in Mgrs :
        /\ ttl[m] # None
        /\ pc[m] = "idle"
        /\ result[m] = Ret("aenter", "GRpcStatusError", "lock_call")
        /\ lease_keepalive_task[m] = "aborted"
        /\ lock_id[m] = None

\* ---------------------------------------------------------------------
\* the step in which the lease_revoke of acquire's timeout arm or of
\* release returns to m
RevokeReturns(m) ==
    /\ pc[m] \in {"aenter_revoke", "aexit_revoke"}
    /\ pc'[m] = "idle"

\* C26: on the timeout path of acquire and on the release path, a revoke
\* that fails for another reason than "not found" is propagated: when the
\* revoke returns and the lease is on the store before and after it (so
\* the revoke neither succeeded nor found the lease missing), the caller
\* gets the revoke's error, not the timeout error and not success.
C26_RevokeErrorPolicy ==
    [][\A m \in Mgrs :
          (RevokeReturns(m) /\ LeaseLive(m) /\ storeLease'[m] > 0)
              => result'[m].path = "revoke"]_vars

\* ---------------------------------------------------------------------
\* the calls that release a lock on the store
ReleaseActions == {"lease_revoke", "unlock"}

\* release has been called on m, which held the lock
InRelease(m) == phase[m] \in {"Releasing", "Released", "ReleaseFailed"}

LiveSessions ==
    {s \in Sessions :
        session[s] \in {"connecting", "acquiring", "open", "cleanup"}}

\* C28: in every reachable state the active-context count is the number
\* of sessions whose __aenter__ has started and whose lifetime has not
\* ended; in particular it is zero when no session is open.
C28_CountIsLiveSessions ==
    active_contexts = Cardinality(LiveSessions)

\* ---------------------------------------------------------------------
\* the step in which the wrapper of s calls trigger_shutdown_fn()
TriggerInvoked(s) == session[s] # "join" /\ session'[s] = "join"

\* the step in which the wrapper of s has to_thread(join_fn) run
JoinInvoked(s) == session[s] = "join" /\ session'[s] # "join"

\* C29: in the exit sequence of a session, trigger_shutdown is called only
\* by a wrapper that inner_cleanup has resumed with is_last = true, the
\* join runs only after that call, is_last is written by the completion of
\* inner_cleanup only, and a wrapper resumed with is_last = false ends
\* without calling either.
C29_TwoPhaseShutdownOrder ==
    /\ [](\A s \in Sessions : session[s] = "join" => is_last[s])
    /\ [][\A s \in Sessions :
            /\ TriggerInvoked(s) => (session[s] = "wrapper" /\ is_last[s])
            /\ JoinInvoked(s) => (is_last[s] /\ session'[s] = "closed")
            /\ (session[s] # "wrapper" /\ session'[s] = "wrapper")
                   => session[s] = "cleanup"
            /\ is_last'[s] # is_last[s]
                   => (session[s] = "cleanup" /\ session'[s] = "wrapper")
            /\ (session[s] = "wrapper" /\ ~is_last[s])
                   => session'[s] \in {"wrapper", "closed"}]_vars

\* one session has closed without the shutdown calls, the last one has
\* closed after trigger and join
C29_Witness ==
    \E s1, s2 \in Sessions :
        /\ session[s1] = "closed" /\ ~is_last[s1]
        /\ session[s2] = "closed" /\ is_last[s2]

\* ---------------------------------------------------------------------
\* the step in which the __anext__ future of p ends with the error of a
\* failed client.watch
InitFails(p) == poll[p] = "init_watch" /\ poll'[p] = "done"

\* C30: ready_event is signaled by init() only after the server-side watch
\* has been established and the stream stored: whenever its flag is set
\* the session has its event stream and its watcher and a watch was made
\* on the store; the flag is set only by an init() that has stored the
\* stream, and a failed client.watch leaves it as it was.
C30_ReadyAfterStreamStored ==
    /\ [](ready_event = "set" =>
            /\ event_stream # None
            /\ watcher # None
            /\ watches_made >= 1)
    /\ [][/\ (ready_event # "set" /\ ready_event' = "set") =>
               (event_stream # None /\ server_watch # "none")
          /\ \A p \in Pollers :
               InitFails(p) => ready_event' = ready_event]_vars

\* a first client.watch failed without a signal, a later one succeeded and
\* init signaled ready_event
C30_Witness ==
    /\ ready_event = "set"
    /\ event_stream # None
    /\ server_watch = "open"
    /\ emitted = 0
    /\ inflight = <<>>
    /\ \E p \in Pollers : poll[p] = "done" /\ ret[p] = Res("error", 0)

\* ---------------------------------------------------------------------
\* the step in which next() of p, having received a response, reads
\* events[*index] from the buffer the response was appended to
ReadsAfterBatch(p) ==
    /\ poll[p] = "recv"
    /\ inflight # <<>>
    /\ Head(inflight).kind = "batch"
    /\ poll'[p] # "recv"
    /\ events' # <<>>

\* C31: the cursor stays inside the buffer, and every read of the buffer
\* uses an index below its length: a next() that reads the buffer after
\* receiving a response reads a position that exists, and no poll ends
\* with the panic of an out-of-bounds read.
C31_CursorInBounds ==
    /\ [](index <= Len(events))
    /\ [][\A p \in Pollers :
            ReadsAfterBatch(p) =>
                (index < Len(events') /\ ret'[p].kind # "panic")]_vars

\* ---------------------------------------------------------------------
\* the step in which next() of p gets Some(Err(error)) from the stream
RecvsError(p) ==
    /\ poll[p] = "recv"
    /\ inflight # <<>>
    /\ Head(inflight).kind = "err"
    /\ poll'[p] # "recv"

\* the step in which next() of p gets None from the closed stream
RecvsEnd(p) ==
    /\ poll[p] = "recv"
    /\ inflight = <<>>
    /\ poll'[p] # "recv"

\* C32: a closed stream ends the poll with end-of-stream and never with
\* an error; a stream error gives the poll an error result and never
\* end-of-stream, and leaves buffer and index as they were; the once-mode
\* cancel that follows a result hands that result on or panics, it never
\* turns it into end-of-stream.
C32_EndAndErrorDistinct ==
    [][\A p \in Pollers :
          /\ RecvsEnd(p) =>
                /\ poll'[p] = "done"
                /\ ret'[p] = Res("stop", 0)
                /\ UNCHANGED cursor
          /\ RecvsError(p) =>
                /\ ret'[p] = Res("error", 0)
                /\ ~once => poll'[p] = "done"
                /\ UNCHANGED cursor
          /\ (poll[p] = "cancel" /\ poll'[p] = "done") =>
                /\ ret'[p] \in {ret[p], Res("panic", 0)}
                /\ ret[p].kind \in {"event", "error"}]_vars

\* without once: one poll has ended with the stream's error, and a later
\* one with end-of-stream from the closed stream, the buffered events
\* having been returned in between
C32_Witness ==
    /\ ~once
    /\ server_watch = "broken"
    /\ index = Len(events)
    /\ index >= 1
    /\ poll = [p \in Pollers |-> "done"]
    /\ \E p1, p2 \in Pollers :
          ret[p1] = Res("error", 0) /\ ret[p2] = Res("stop", 0)

\* ---------------------------------------------------------------------
\* handle_aenter of m has its lock call or its lease_revoke call in flight
\* on the connection it opened
MgrCallInFlight(m) == pc[m] \in {"aenter_lock", "aenter_revoke"}

\* the step in which the keepalive task of m makes its keep_alive() call,
\* on its clone of the handle handle_aenter opened
HeartbeatSent(m) ==
    /\ lease_keepalive_task[m] = "running"
    /\ kaTimer[m] >= 1
    /\ kaTimer'[m] = 0
    /\ pc'[m] = pc[m]

\* C33: on the handle a manager opened, the calls of the keepalive task
\* never overlap with the manager's own lock or lease_revoke call: no
\* heartbeat is sent while one of these is in flight.
C33_OneCallPerHandle ==
    [][\A m \in Mgrs : HeartbeatSent(m) => ~MgrCallInFlight(m)]_vars

\* ---------------------------------------------------------------------
\* the lock request of m's handle_aenter has been sent
LockAttemptBegun(m) ==
    pc[m] = "aenter_lock" \/ m \in storeWaiting \/ lockResp[m] # "none"

\* the step in which the keepalive task of m is spawned
TaskSpawned(m) ==
    lease_keepalive_task[m] # "running" /\ lease_keepalive_task'[m] = "running"

\* C34: the keepalive task is spawned only in the step that receives the
\* successful lease grant, and a heartbeat is sent only by a manager with
\* ttl whose lease was granted; without ttl, or after a failed grant, there
\* is no task; and with ttl the handle is in the manager whenever the lock
\* attempt has begun.
C34_KeepaliveAfterGrant ==
    /\ [](\A m \in Mgrs :
            /\ ttl[m] = None => lease_keepalive_task[m] = None
            /\ (result[m] = Ret("aenter", PyErrOf("GRpcStatus"),
                                "lease_grant"))
                   => lease_keepalive_task[m] = None
            /\ lease_keepalive_task[m] = "running" => lease_id[m] # None
            /\ (ttl[m] # None /\ LockAttemptBegun(m))
                   => lease_keepalive_task[m] # None)
    /\ [][\A m \in Mgrs :
            /\ TaskSpawned(m) =>
                  /\ pc[m] = "aenter_grant"
                  /\ ~LockAttemptBegun(m)
                  /\ storeLease'[m] = TtlTicks
                  /\ lease_id'[m] # None
            /\ HeartbeatSent(m) => (ttl[m] # None /\ lease_id[m] # None)]_vars

\* one manager's task is running with a heartbeat due while its lock
\* attempt is under way; the other's lease grant failed and it has no task
C34_Witness ==
    \E m1, m2 \in Mgrs :
        /\ pc[m1] = "aenter_lock"
        /\ lease_keepalive_task[m1] = "running"
        /\ kaTimer[m1] >= 1
        /\ result[m2] = Ret("aenter", PyErrOf("GRpcStatus"), "lease_grant")
        /\ lease_keepalive_task[m2] = None

\* ---------------------------------------------------------------------
\* handle_aenter on m has returned a failure or the timeout
AcquireFailed(m) ==
    pc[m] = "idle" /\ phase[m] \in {"Failed", "TimedOut"}

\* handle_aexit has returned, with success or an error, on a manager that
\* held the lock
ReleaseReturned(m) ==
    pc[m] = "idle" /\ phase[m] \in {"Released", "ReleaseFailed"}

Unfinished ==
    {t \in Tasks : task_state[t] \in {"running", "finished"}}

\* C36: in every reachable state ACTIVE_TASKS is the number of futures
\* passed to spawn() that have not finished; it is never negative and it
\* is 0 whenever every spawned operation has ended, also one whose
\* conversion to a host awaitable failed.
C36_CounterExact ==
    /\ ACTIVE_TASKS >= 0
    /\ ACTIVE_TASKS = Cardinality(Unfinished)

\* ---------------------------------------------------------------------
\* C37: no shutdown wakeup is lost: whenever _cleanup_runtime is about to
\* call notify_one, whether the management thread is still starting, is
\* parked on the notifier, or was notified before, the thread eventually
\* ends.
C37_ShutdownWakesThread ==
    (cleanup = "notify") ~> (thread = "exited")

\* two _cleanup_runtime calls have sent their notification before the
\* management thread began to wait: one permit is stored for it
C37_Witness ==
    /\ thread = "starting"
    /\ cleanup = "idle"
    /\ cleanups >= 2
    /\ permit

\* ---------------------------------------------------------------------
\* every `async with` on the object has ended or has not begun
AllExited == \A e \in Entries : entry[e] \in {"new", "closed", "failed"}

\* C38: on one Client object entered several times, each __aexit__ works
\* on the manager of its own __aenter__ and releases that manager's lock,
\* and when all sessions have exited every lock acquired through the
\* object has been released exactly once: nothing is held on the store,
\* and the lock of each session that closed was unlocked once.
C38_OwnLockReleasedOnce ==
    /\ \A e \in Entries : entry[e] = "exiting" => exit_manager[e] = e
    /\ AllExited =>
          /\ lock_holder = None
          /\ \A e \in Entries : mgr_lock_id[e] = None
          /\ \A e \in Entries :
                unlocks[e] = (IF entry[e] = "closed" THEN 1 ELSE 0)

\* ---------------------------------------------------------------- C39
\* the order in which the mutexes are taken
Rank(m) ==
    CASE m = "event_stream" -> 1
      [] m = "client" -> 2
      [] m = "watcher" -> 3
      [] m = "condition" -> 4

Held(t) == {m \in Mutexes : holder[m] = t}

\* the task that holds the mutex t waits for, or None
WaitsFor(t) ==
    IF Wants(at[t]) = None THEN None ELSE holder[Wants(at[t])]

\* following who waits for whom from t ends within n steps at a task that
\* waits for nobody
RECURSIVE ChainEnds(_, _)
ChainEnds(t, n) ==
    IF n = 0 THEN FALSE
    ELSE WaitsFor(t) = None \/ ChainEnds(WaitsFor(t), n - 1)

\* C39: the mutexes are taken in one order (event_stream, client, watcher,
\* condition): a task waiting for a mutex holds only mutexes that come
\* before it, so no tasks wait for each other in a cycle; and a watch that
\* only waits for its next batch holds the event_stream mutex alone, so it
\* does not block a Communicator call on the client handle.
C39_LockOrderNoCycle ==
    /\ \A t \in MutexTasks : Wants(at[t]) # None =>
           \A m \in Held(t) : Rank(m) < Rank(Wants(at[t]))
    /\ \A t \in MutexTasks : ChainEnds(t, Cardinality(MutexTasks) + 1)
    /\ \A t \in AnextTasks : at[t] = "recv" => Held(t) = {"event_stream"}

\* one __anext__ waits for its batch, the other waits for the event_stream
\* mutex, and a Communicator call runs under the client mutex
C39_Witness ==
    /\ at["x1"] = "recv"
    /\ at["x2"] = "init"
    /\ at["k1"] = "calling"
    /\ holder["client"] = "k1"

\* ---------------------------------------------------------------- C40
\* replace resolves with true and writes new_val
ReplaceWrites ==
    /\ replace_at = "got"
    /\ replace_at' = "idle"
    /\ replace_ret' = "true"

\* replace resolves with false
ReplaceDeclines ==
    /\ replace_at = "got"
    /\ replace_at' = "idle"
    /\ replace_ret' = "false"

\* C40: replace is a compare-and-swap that is atomic against every writer of
\* the store: it writes new_val and returns true only if the key's value
\* equals initial_val at the moment of the write, and otherwise returns
\* false and writes nothing, also when a client on another handle writes
\* the key concurrently.
C40_ReplaceIsAtomicCas ==
    [][/\ ReplaceWrites => (kv = initial_val /\ kv' = new_val)
       /\ ReplaceDeclines => (kv # initial_val /\ kv' = kv)]_vars

=============================================================================
